---- MODULE Spec2Model ----
(***************************************************************************)
(* LaymanDB backend: the schema synthesizer (schemaGenerator.service.js),  *)
(* the rule-based extractor with its fallback (schema.controller.js:       *)
(* extractEntities, processWithBasicNLP, fallbackEntityExtraction) and the *)
(* diagram emitter with its auto-repair and validator                      *)
(* (mermaidGenerator.service.js: generateMermaidERD), and the handlers     *)
(* that version stored schemas (schema.controller.js: updateSchema;        *)
(* query.controller.js: createSession, saveSession).                       *)
(*                                                                         *)
(* JavaScript strings that the code inspects character by character are    *)
(* sequences of one-character strings; enumerated values that the code     *)
(* only compares (relationship types, error kinds) are TLA+ strings.       *)
(* Descriptions and layout positions of tables are left out: no operation  *)
(* modelled here reads them.                                               *)
(***************************************************************************)
EXTENDS Integers, Sequences, FiniteSets, TLC

VARIABLES
    path,        \* per run: which extraction path produced the input ("nlp" / "ai")
    entities,    \* per run: extractedData.entities
    relationships, \* per run: extractedData.relationships
    relationshipMap, \* per run: keys of the extractor's relationshipMap
    pc,          \* per run: "extract" while the input is built, "done" after generateSchema
    schema,      \* per run: the schema generateSchema returned (NoSchema before)
    markup,      \* the diagram markup a caller holds
    appended,    \* how many tokens the caller appended to it
    formatted,   \* what autoFormatMermaidSyntax returned for markup
    reformatted, \* what autoFormatMermaidSyntax returned for formatted
    validation,  \* what validateMermaidSyntax returned for markup
    mpc,         \* "edit", then "formatted" / "reformatted" or "validated"
    erdSchema,   \* the schema handed to generateMermaidERD
    pushed,       \* how many relationships the caller pushed to it
    emitted,     \* the markup generateMermaidERD built from the schema
    repaired,    \* what autoFormatMermaidSyntax made of it
    checked,     \* what validateMermaidSyntax reported for the repaired markup
    returned,    \* the text generateMermaidERD returned
    epc,         \* "schema", then "returned" or "thrown"
    text,        \* the value handed to extractEntities
    typed,       \* how many words the caller typed into it
    ai,          \* how the AI path went: "unavailable", "fails" or "answers"
    tagged,      \* what the part-of-speech tagger did with the tokens
    extracted,   \* what extractEntities returned, or that it threw
    tpc,         \* "text", then "done"
    schemaStore, \* the stored Schema records; a record's _id is its index
    sessionStore, \* the stored Session records; a record's _id is its index
    requests,    \* per request slot: how far an updateSchema call has come
    ledger,      \* per stored schema: its first version, and the updates answered 200
    response     \* the response sent last

schemaVars == <<path, entities, relationships, relationshipMap, pc, schema>>
markupVars == <<markup, appended, formatted, reformatted, validation, mpc>>
erdVars == <<erdSchema, pushed, emitted, repaired, checked, returned, epc>>
textVars == <<text, typed, ai, tagged, extracted, tpc>>
storeVars == <<schemaStore, sessionStore, requests, ledger, response>>
vars == <<schemaVars, markupVars, erdVars, textVars, storeVars>>

----------------------------------------------------------------------------
(* Characters and strings *)

LowerChars == <<"a","b","c","d","e","f","g","h","i","j","k","l","m",
                "n","o","p","q","r","s","t","u","v","w","x","y","z">>
UpperChars == <<"A","B","C","D","E","F","G","H","I","J","K","L","M",
                "N","O","P","Q","R","S","T","U","V","W","X","Y","Z">>
Digits == {"0","1","2","3","4","5","6","7","8","9"}

Range(s) == {s[i] : i \in 1..Len(s)}

IsLower(c) == c \in Range(LowerChars)
IsUpper(c) == c \in Range(UpperChars)
\* \s of a JavaScript regular expression, over the characters used here
IsSpace(c) == c \in {" ", "\n", "\t"}
\* \w of a JavaScript regular expression
IsWord(c) == IsLower(c) \/ IsUpper(c) \/ c \in Digits \/ c = "_"

\* String.prototype.toLowerCase
LowerOf(c) == IF IsUpper(c) THEN LowerChars[CHOOSE i \in 1..26 : UpperChars[i] = c] ELSE c
ToLowerCase(s) == [i \in 1..Len(s) |-> LowerOf(s[i])]

\* String.prototype.toUpperCase, of one character
UpperOf(c) == IF IsLower(c) THEN UpperChars[CHOOSE i \in 1..26 : LowerChars[i] = c] ELSE c

\* String.prototype.includes / endsWith / startsWith
StartsWithAt(s, sub, p) ==
    /\ p + Len(sub) - 1 <= Len(s)
    /\ \A k \in 1..Len(sub) : s[p + k - 1] = sub[k]
Includes(s, sub) == \E p \in 1..(Len(s) + 1) : StartsWithAt(s, sub, p)
EndsWith(s, sub) == Len(sub) <= Len(s) /\ StartsWithAt(s, sub, Len(s) - Len(sub) + 1)
StartsWith(s, sub) == StartsWithAt(s, sub, 1)

\* the JavaScript value undefined, where a string or an object is expected
Undefined == <<"undefined">>

----------------------------------------------------------------------------
(* schemaGenerator.service.js *)

\* .replace(/([a-z])([A-Z])/g, '$1_$2')
SnakeBoundaries(s) ==
    LET n == Len(s)
        f[i \in 1..(n + 1)] ==
            IF i > n THEN <<>>
            ELSE IF i < n /\ IsLower(s[i]) /\ IsUpper(s[i + 1])
                 THEN <<s[i], "_", s[i + 1]>> \o f[i + 2]
                 ELSE <<s[i]>> \o f[i + 1]
    IN f[1]

\* .replace(/\s+/g, '_')
SpacesToUnderscore(s) ==
    LET n == Len(s)
        f[i \in 1..(n + 1)] ==
            IF i > n THEN <<>>
            ELSE IF IsSpace(s[i])
                 THEN (IF i > 1 /\ IsSpace(s[i - 1]) THEN <<>> ELSE <<"_">>) \o f[i + 1]
                 ELSE <<s[i]>> \o f[i + 1]
    IN f[1]

\* .replace(/[^a-z0-9_]/g, '')
StripInvalid(s) == SelectSeq(s, LAMBDA c : IsLower(c) \/ c \in Digits \/ c = "_")

\* .replace(/^[0-9]/, '_$&')
EscapeLeadingDigit(s) == IF Len(s) > 0 /\ s[1] \in Digits THEN <<"_">> \o s ELSE s

transformTableName(entityName) ==
    EscapeLeadingDigit(StripInvalid(SpacesToUnderscore(ToLowerCase(SnakeBoundaries(entityName)))))

INTEGER == <<"I","N","T","E","G","E","R">>
VARCHAR255 == <<"V","A","R","C","H","A","R","(","2","5","5",")">>
VARCHAR20 == <<"V","A","R","C","H","A","R","(","2","0",")">>
TIMESTAMP == <<"T","I","M","E","S","T","A","M","P">>
DECIMAL == <<"D","E","C","I","M","A","L","(","1","0",",","2",")">>
BOOLEANTYPE == <<"B","O","O","L","E","A","N">>
TEXT == <<"T","E","X","T">>
CASCADE == <<"C","A","S","C","A","D","E">>
CURRENT_TIMESTAMP == <<"C","U","R","R","E","N","T","_","T","I","M","E","S","T","A","M","P">>

IdName == <<"i","d">>
NameName == <<"n","a","m","e">>
CreatedAt == <<"c","r","e","a","t","e","d","_","a","t">>
UpdatedAt == <<"u","p","d","a","t","e","d","_","a","t">>
IdSuffix == <<"_","i","d">>

\* an absent `references`
NoReferences ==
    [defined |-> FALSE, table |-> Undefined, column |-> Undefined,
     onDelete |-> Undefined, onUpdate |-> Undefined,
     entity |-> Undefined, attribute |-> Undefined]

\* references: { table, column, onDelete: 'CASCADE', onUpdate: 'CASCADE' }
TableReference(t, c) ==
    [defined |-> TRUE, table |-> t, column |-> c,
     onDelete |-> CASCADE, onUpdate |-> CASCADE,
     entity |-> Undefined, attribute |-> Undefined]

\* references: { entity, attribute }, the shape the extractor writes
EntityReference(e, a) ==
    [defined |-> TRUE, table |-> Undefined, column |-> Undefined,
     onDelete |-> Undefined, onUpdate |-> Undefined,
     entity |-> e, attribute |-> a]

\* a column object; isUnique and defaultValue may be absent (undefined)
Column(n, ty, pk, fk, nullable, unique, dflt, refs) ==
    [name |-> n, dataType |-> ty, isPrimaryKey |-> pk, isForeignKey |-> fk,
     isNullable |-> nullable, isUnique |-> unique, defaultValue |-> dflt,
     references |-> refs]

\* an attribute object of the extraction; the flags are "true", "false" or
\* "undefined" (absent)
Attribute(n, ty, pk, fk, nullable, unique, dflt, refs) ==
    [name |-> n, dataType |-> ty, isPrimaryKey |-> pk, isForeignKey |-> fk,
     isNullable |-> nullable, isUnique |-> unique, defaultValue |-> dflt,
     references |-> refs]

inferDataType(attributeName) ==
    LET name == ToLowerCase(attributeName)
    IN IF name = IdName \/ EndsWith(name, IdSuffix) \/ EndsWith(name, IdName)
       THEN INTEGER
       ELSE IF Includes(name, <<"d","a","t","e">>) \/ Includes(name, <<"t","i","m","e">>)
       THEN TIMESTAMP
       ELSE IF \/ Includes(name, <<"p","r","i","c","e">>)
               \/ Includes(name, <<"c","o","s","t">>)
               \/ Includes(name, <<"a","m","o","u","n","t">>)
       THEN DECIMAL
       ELSE IF \/ Includes(name, <<"i","s","_">>)
               \/ Includes(name, <<"h","a","s","_">>)
               \/ name = <<"a","c","t","i","v","e">>
               \/ name = <<"e","n","a","b","l","e","d">>
       THEN BOOLEANTYPE
       ELSE IF \/ Includes(name, <<"d","e","s","c","r","i","p","t","i","o","n">>)
               \/ Includes(name, <<"c","o","n","t","e","n","t">>)
               \/ Includes(name, <<"t","e","x","t">>)
       THEN TEXT
       ELSE IF Includes(name, <<"e","m","a","i","l">>)
       THEN VARCHAR255
       ELSE IF Includes(name, <<"p","h","o","n","e">>)
       THEN VARCHAR20
       ELSE VARCHAR255

DefaultColumns ==
    << Column(IdName, INTEGER, TRUE, FALSE, FALSE, "true", Undefined, NoReferences),
       Column(NameName, VARCHAR255, FALSE, FALSE, FALSE, "false", Undefined, NoReferences),
       Column(CreatedAt, TIMESTAMP, FALSE, FALSE, FALSE, "undefined", CURRENT_TIMESTAMP, NoReferences),
       Column(UpdatedAt, TIMESTAMP, FALSE, FALSE, FALSE, "undefined", CURRENT_TIMESTAMP, NoReferences) >>

ColumnFromAttribute(attr) ==
    Column(SpacesToUnderscore(ToLowerCase(attr.name)),
           IF attr.dataType # Undefined THEN attr.dataType ELSE inferDataType(attr.name),
           attr.isPrimaryKey = "true",
           attr.isForeignKey = "true",
           attr.isNullable # "false",
           IF attr.isUnique = "true" \/ attr.isPrimaryKey = "true" THEN "true" ELSE "false",
           attr.defaultValue,
           attr.references)

\* attributes.map(attr => ({...})), over the first n attributes
RECURSIVE ColumnsOfFirst(_, _)
ColumnsOfFirst(attributes, n) ==
    IF n = 0 THEN <<>>
    ELSE Append(ColumnsOfFirst(attributes, n - 1), ColumnFromAttribute(attributes[n]))

generateColumnsFromAttributes(attributes) ==
    IF Len(attributes) = 0
    THEN DefaultColumns
    ELSE ColumnsOfFirst(attributes, Len(attributes))

\* a find that falls back on the first table when no name matches: with it a
\* dangling relationship would be kept
FindTableOrFirst(tables, name) ==
    IF \E i \in 1..Len(tables) : ToLowerCase(tables[i].name) = name
    THEN CHOOSE i \in 1..Len(tables) :
            /\ ToLowerCase(tables[i].name) = name
            /\ \A j \in 1..(i - 1) : ToLowerCase(tables[j].name) # name
    ELSE IF Len(tables) > 0 THEN 1 ELSE 0

\* Array.prototype.find over the tables, as an index (0: not found)
FindTable(tables, name) ==
    IF \E i \in 1..Len(tables) : ToLowerCase(tables[i].name) = name
    THEN CHOOSE i \in 1..Len(tables) :
            /\ ToLowerCase(tables[i].name) = name
            /\ \A j \in 1..(i - 1) : ToLowerCase(tables[j].name) # name
    ELSE 0

\* columns.find(c => c.isPrimaryKey) || { name: 'id' }
PrimaryKeyColumn(table) ==
    IF \E i \in 1..Len(table.columns) : table.columns[i].isPrimaryKey
    THEN LET i == CHOOSE k \in 1..Len(table.columns) :
                     /\ table.columns[k].isPrimaryKey
                     /\ \A j \in 1..(k - 1) : ~table.columns[j].isPrimaryKey
         IN [name |-> table.columns[i].name, dataType |-> table.columns[i].dataType]
    ELSE [name |-> IdName, dataType |-> Undefined]

\* a foreign-key column typed INTEGER whatever the source's key is
ForeignKeyColumnInteger(sourceTable, sourceColumn) ==
    Column(ToLowerCase(sourceTable.name) \o IdSuffix,
           INTEGER,
           FALSE, TRUE, TRUE, "false", Undefined,
           TableReference(sourceTable.name, sourceColumn.name))

\* the column pushed onto the "many" side of a ONE_TO_MANY relationship
ForeignKeyColumn(sourceTable, sourceColumn) ==
    Column(ToLowerCase(sourceTable.name) \o IdSuffix,
           IF sourceColumn.dataType # Undefined THEN sourceColumn.dataType ELSE INTEGER,
           FALSE, TRUE, TRUE, "false", Undefined,
           TableReference(sourceTable.name, sourceColumn.name))

\* which relationship types make transformRelationship add a foreign key
AddsForeignKey(type) == type = "ONE_TO_MANY"

\* transformRelationship(relationship, tables): the tables after its push and
\* the relationship it returns (<<>> for null, which filter(Boolean) drops)
transformRelationship(relationship, tables) ==
    LET si == FindTable(tables, ToLowerCase(transformTableName(relationship.sourceEntity)))
        ti == FindTable(tables, ToLowerCase(transformTableName(relationship.targetEntity)))
    IN IF si = 0 \/ ti = 0
       THEN [tables |-> tables, result |-> <<>>]
       ELSE
         LET sourceTable == tables[si]
             targetTable == tables[ti]
             sourceColumn == PrimaryKeyColumn(sourceTable)
             targetColumn == PrimaryKeyColumn(targetTable)
             fkName == ToLowerCase(sourceTable.name) \o IdSuffix
             push == /\ AddsForeignKey(relationship.type)
                     /\ ~\E k \in 1..Len(targetTable.columns) : targetTable.columns[k].name = fkName
         IN [tables |->
                IF push
                THEN [tables EXCEPT ![ti].columns =
                         Append(@, ForeignKeyColumn(sourceTable, sourceColumn))]
                ELSE tables,
             result |->
                << [name |-> sourceTable.name \o <<"_">> \o targetTable.name,
                    sourceTable |-> sourceTable.name,
                    targetTable |-> targetTable.name,
                    sourceColumn |-> sourceColumn.name,
                    targetColumn |-> IF relationship.type = "ONE_TO_MANY"
                                     THEN fkName ELSE targetColumn.name,
                    type |-> relationship.type,
                    junctionTable |-> Undefined] >>]

\* relationships.map(rel => transformRelationship(rel, tables)).filter(Boolean):
\* the first n relationships applied in order, each on the tables the
\* earlier ones left
RECURSIVE TransformFirst(_, _, _)
TransformFirst(rels, tables, n) ==
    IF n = 0 THEN [tables |-> tables, out |-> <<>>]
    ELSE LET prev == TransformFirst(rels, tables, n - 1)
             step == transformRelationship(rels[n], prev.tables)
         IN [tables |-> step.tables, out |-> prev.out \o step.result]

TransformAll(rels, tables) == TransformFirst(rels, tables, Len(rels))

\* a junction key column left nullable
JunctionKeyColumnNullable(table, column) ==
    Column(ToLowerCase(table) \o IdSuffix, INTEGER, TRUE, TRUE, TRUE, "false",
           Undefined, TableReference(table, column))

\* one of the two key columns of a junction table
JunctionKeyColumn(table, column) ==
    Column(ToLowerCase(table) \o IdSuffix, INTEGER, TRUE, TRUE, FALSE, "false",
           Undefined, TableReference(table, column))

JunctionTable(rel) ==
    [name |-> rel.sourceTable \o <<"_">> \o rel.targetTable,
     columns |->
        << JunctionKeyColumn(rel.sourceTable, rel.sourceColumn),
           JunctionKeyColumn(rel.targetTable, rel.targetColumn),
           Column(CreatedAt, TIMESTAMP, FALSE, FALSE, FALSE, "undefined",
                  CURRENT_TIMESTAMP, NoReferences) >>]

JunctionRelationships(rel) ==
    LET junctionTableName == rel.sourceTable \o <<"_">> \o rel.targetTable
    IN << [name |-> rel.sourceTable \o <<"_","t","o","_">> \o junctionTableName,
           sourceTable |-> rel.sourceTable,
           targetTable |-> junctionTableName,
           sourceColumn |-> rel.sourceColumn,
           targetColumn |-> ToLowerCase(rel.sourceTable) \o IdSuffix,
           type |-> "ONE_TO_MANY",
           junctionTable |-> junctionTableName],
          [name |-> rel.targetTable \o <<"_","t","o","_">> \o junctionTableName,
           sourceTable |-> rel.targetTable,
           targetTable |-> junctionTableName,
           sourceColumn |-> rel.targetColumn,
           targetColumn |-> ToLowerCase(rel.targetTable) \o IdSuffix,
           type |-> "ONE_TO_MANY",
           junctionTable |-> junctionTableName] >>

\* the loop of createJunctionTables over the first n MANY_TO_MANY relationships
RECURSIVE JunctionsOfFirst(_, _, _)
JunctionsOfFirst(tables, manyToMany, n) ==
    IF n = 0 THEN [updatedTables |-> tables, junctionRelationships |-> <<>>]
    ELSE LET prev == JunctionsOfFirst(tables, manyToMany, n - 1)
             rel == manyToMany[n]
         IN IF \/ ~\E i \in 1..Len(tables) : tables[i].name = rel.sourceTable
               \/ ~\E i \in 1..Len(tables) : tables[i].name = rel.targetTable
            THEN prev
            ELSE [updatedTables |-> Append(prev.updatedTables, JunctionTable(rel)),
                  junctionRelationships |->
                      prev.junctionRelationships \o JunctionRelationships(rel)]

createJunctionTables(tables, rels) ==
    LET manyToMany == SelectSeq(rels, LAMBDA r : r.type = "MANY_TO_MANY")
    IN JunctionsOfFirst(tables, manyToMany, Len(manyToMany))

\* entities.map(entity => ({ name, columns })), over the first n entities
RECURSIVE TablesOfFirst(_, _)
TablesOfFirst(ents, n) ==
    IF n = 0 THEN <<>>
    ELSE Append(TablesOfFirst(ents, n - 1),
                [name |-> transformTableName(ents[n].name),
                 columns |-> generateColumnsFromAttributes(ents[n].attributes)])

\* generateSchema(extractedData): tables, relationships and version of the
\* schema it returns
generateSchema(ents, rels) ==
    LET tables == TablesOfFirst(ents, Len(ents))
        transformed == TransformAll(rels, tables)
        junction == createJunctionTables(transformed.tables, transformed.out)
    IN [tables |-> junction.updatedTables,
        relationships |-> transformed.out \o junction.junctionRelationships,
        version |-> 1]

----------------------------------------------------------------------------
(* mermaidGenerator.service.js: autoFormatMermaidSyntax *)

\* the character U+2014 (em dash), one character of the markup
EmDash == "emdash"
Quote == "\""
Newline == "\n"

\* the character at position p, "" past either end
CharAt(s, p) == IF p \in 1..Len(s) THEN s[p] ELSE ""

\* the character classes of the patterns
InClass(class, c) ==
    CASE class = "\\w" -> IsWord(c)
      [] class = "\\s" -> IsSpace(c)
      [] class = "\\S" -> ~IsSpace(c)
      [] class = "[^\"]" -> c # Quote
      [] class = "[^\"\\n]" -> c # Quote /\ c # Newline

\* a greedy run x+ / x* of one character class from position p: the index
\* after its last character (p itself when the run is empty)
RunEnd(s, p, class) ==
    CHOOSE q \in p..(Len(s) + 1) :
        /\ q = Len(s) + 1 \/ ~InClass(class, s[q])
        /\ \A j \in p..(q - 1) : InClass(class, s[j])

WordEnd(s, p) == RunEnd(s, p, "\\w")
SpaceEnd(s, p) == RunEnd(s, p, "\\s")
LabelEnd(s, p) == RunEnd(s, p, "[^\"\\n]")

\* String.prototype.trim
Trim(s) ==
    LET first == SpaceEnd(s, 1)
        last == IF first > Len(s) THEN 0
                ELSE CHOOSE k \in first..Len(s) :
                        ~IsSpace(s[k]) /\ \A j \in (k + 1)..Len(s) : IsSpace(s[j])
    IN IF first > Len(s) THEN <<>> ELSE SubSeq(s, first, last)

\* the line break of s[lo..hi] nearest to its middle, 0 when it has none
MiddleBreak(s, lo, hi) ==
    IF lo > hi THEN 0
    ELSE IF \E k \in ((lo + hi) \div 2)..hi : s[k] = Newline
    THEN CHOOSE k \in ((lo + hi) \div 2)..hi :
            s[k] = Newline /\ \A j \in ((lo + hi) \div 2)..(k - 1) : s[j] # Newline
    ELSE IF \E k \in lo..hi : s[k] = Newline
    THEN CHOOSE k \in lo..hi : s[k] = Newline /\ \A j \in (k + 1)..hi : s[j] # Newline
    ELSE 0

\* the lines of s[lo..hi]: the lines before one of its line breaks, then the
\* lines after it
RECURSIVE SplitRange(_, _, _)
RECURSIVE SplitAt(_, _, _, _)
SplitAt(s, lo, hi, k) ==
    IF k = 0 THEN <<SubSeq(s, lo, hi)>>
    ELSE SplitRange(s, lo, k - 1) \o SplitRange(s, k + 1, hi)

SplitRange(s, lo, hi) == SplitAt(s, lo, hi, MiddleBreak(s, lo, hi))

\* String.prototype.split('\n')
SplitLines(s) == SplitRange(s, 1, Len(s))

\* the elements lo..hi of the array, with a line break between neighbours
RECURSIVE JoinRange(_, _, _)
JoinRange(lines, lo, hi) ==
    IF lo > hi THEN <<>>
    ELSE IF lo = hi THEN lines[lo]
    ELSE JoinRange(lines, lo, (lo + hi) \div 2) \o <<Newline>>
         \o JoinRange(lines, ((lo + hi) \div 2) + 1, hi)

\* Array.prototype.join('\n')
JoinLines(lines) == JoinRange(lines, 1, Len(lines))

Indent4 == <<" ", " ", " ", " ">>
Indent8 == Indent4 \o Indent4

\* (\|\||\}o|o\{) at position p
IsCardinalityAt(s, p) ==
    <<CharAt(s, p), CharAt(s, p + 1)>> \in {<<"|", "|">>, <<"}", "o">>, <<"o", "{">>}

\* $ under the m flag: at the end of the input or before a newline
IsLineEnd(s, p) == p = Len(s) + 1 \/ CharAt(s, p) = Newline

\* x+ : a run that ends at end and started at p has at least one character
AtLeastOne(p, end) == IF end > p THEN end ELSE 0

\* one part of a pattern, tried at position p: the index after what it
\* matches, 0 when it does not match. The parts are the greedy runs \w+ \s+
\* \s* [^"]*, the cardinality glyph (\|\||\}o|o\{), the line end $ (m flag),
\* the end of the input $ and the literal texts
PartEnd(s, p, part) ==
    CASE part = "\\w+" -> AtLeastOne(p, WordEnd(s, p))
      [] part = "\\s+" -> AtLeastOne(p, SpaceEnd(s, p))
      [] part = "\\s*" -> SpaceEnd(s, p)
      [] part = "[^\"]*" -> RunEnd(s, p, "[^\"]")
      [] part = "(\\|\\||\\}o|o\\{)" -> IF IsCardinalityAt(s, p) THEN p + 2 ELSE 0
      [] part = "--" -> IF StartsWithAt(s, <<"-", "-">>, p) THEN p + 2 ELSE 0
      [] part = "$m" -> IF IsLineEnd(s, p) THEN p ELSE 0
      [] part = "$" -> IF p = Len(s) + 1 THEN p ELSE 0
      [] OTHER -> IF CharAt(s, p) = part THEN p + 1 ELSE 0

\* the parts of a pattern tried one after the other: ends[1] is where the
\* match starts and ends[k + 1] the index after part k, 0 from the first part
\* that does not match. No part of these patterns can match text that the
\* part after it needs, so a run never has to give characters back
RECURSIVE PartEnds(_, _, _)
PartEnds(s, ends, parts) ==
    IF parts = <<>> THEN ends
    ELSE PartEnds(s,
                  Append(ends, IF ends[Len(ends)] = 0 THEN 0
                               ELSE PartEnd(s, ends[Len(ends)], Head(parts))),
                  Tail(parts))

\* a match object: whether the pattern matched, the index after the match
\* and the ends of its parts
MatchOf(ends) == [ok |-> ends[Len(ends)] # 0, end |-> ends[Len(ends)], ends |-> ends]

\* the text between the start of part from and the end of part to - 1
Group(s, m, from, to) == SubSeq(s, m.ends[from], m.ends[to] - 1)

Glyph == "(\\|\\||\\}o|o\\{)"

\* the patterns of the code, by the name used for them here
Parts(pattern) ==
    CASE pattern = "attributeBrace" ->      \* /(\w+\s+\w+\s+\w+)\s*}(\w+)/
             <<"\\w+", "\\s+", "\\w+", "\\s+", "\\w+", "\\s*", "}", "\\w+">>
      [] pattern = "blockBoundary" ->       \* /}\s*(\w+)\s*{/
             <<"}", "\\s*", "\\w+", "\\s*", "{">>
      [] pattern = "doubleDash" -> <<Glyph, "--", Glyph>>
      [] pattern = "singleDash" -> <<Glyph, "-", Glyph>>
      [] pattern = "emDash" -> <<Glyph, EmDash, Glyph>>
      [] pattern = "quotedLabel" ->         \* /:\s*"([^"]*)"$/m
             <<":", "\\s*", Quote, "[^\"]*", Quote, "$m">>
      [] pattern = "entityUse" ->           \* /\s+(\w+)\s+{/
             <<"\\s+", "\\w+", "\\s+", "{">>
      [] pattern = "relationshipUse" ->     \* /\s+(\w+)\s+(\|\||}\o|\o\{)\s*--\s*(\|\||}\o|\o\{)\s+(\w+)/
             <<"\\s+", "\\w+", "\\s+", Glyph, "\\s*", "--", "\\s*", Glyph, "\\s+", "\\w+">>
      [] pattern = "entityOpener" ->        \* /^\s*(\w+)\s+{$/
             <<"\\s*", "\\w+", "\\s+", "{", "$">>
      [] pattern = "missingNewlineBeforeBrace" ->  \* /(\w+)(\s+)(\w+)(\s+)(\w+)}(\w+)/
             <<"\\w+", "\\s+", "\\w+", "\\s+", "\\w+", "}", "\\w+">>
      [] pattern = "badRelationship" ->     \* /^\s*(\w+)\s+(\|\||}\o|\o\{)(--|\-\-)(\|\||}\o|\o\{)\s+(\w+)/
             <<"\\s*", "\\w+", "\\s+", Glyph, "--", Glyph, "\\s+", "\\w+">>
      [] pattern = "badEmDashRelationship" ->  \* the same with — for the dashes
             <<"\\s*", "\\w+", "\\s+", Glyph, EmDash, Glyph, "\\s+", "\\w+">>
      [] pattern = "relationship" ->        \* /^\s*(\w+)\s+(\|\||}\o|\o\{)\s+--\s+(\|\||}\o|\o\{)\s+(\w+)/
             <<"\\s*", "\\w+", "\\s+", Glyph, "\\s+", "--", "\\s+", Glyph, "\\s+", "\\w+">>

\* /:\s*([^"\n]+)$/m from position i: where group 1 starts, the whitespace
\* run given back one character at a time until the rest of the pattern
\* matches (0: no match)
BareLabelStart(s, i) ==
    LET candidates == {g \in (i + 1)..SpaceEnd(s, i + 1) :
                          /\ LabelEnd(s, g) > g
                          /\ IsLineEnd(s, LabelEnd(s, g))}
    IN IF CharAt(s, i) # ":" \/ candidates = {} THEN 0
       ELSE CHOOSE g \in candidates : \A h \in candidates : h <= g

\* the ends of the colon with its whitespace and of group 1
BareLabelEnds(s, i, start) ==
    <<i, start, IF start = 0 THEN 0 ELSE LabelEnd(s, start)>>

\* the match of a pattern that starts at position i
Match(pattern, s, i) ==
    IF pattern = "bareLabel" THEN MatchOf(BareLabelEnds(s, i, BareLabelStart(s, i)))
    ELSE MatchOf(PartEnds(s, <<i>>, Parts(pattern)))

\* the text replace puts in the place of the match m
Replacement(pattern, s, m) ==
    CASE pattern = "attributeBrace" ->      \* '$1\n    }\n\n    $2'
             Group(s, m, 1, 6) \o <<Newline>> \o Indent4 \o <<"}", Newline, Newline>>
             \o Indent4 \o Group(s, m, 8, 9)
      [] pattern = "blockBoundary" ->       \* '}\n\n    $1 {'
             <<"}", Newline, Newline>> \o Indent4 \o Group(s, m, 3, 4) \o <<" ", "{">>
      [] pattern \in {"doubleDash", "singleDash", "emDash"} ->   \* '$1 -- $2'
             Group(s, m, 1, 2) \o <<" ", "-", "-", " ">> \o Group(s, m, 3, 4)
      [] pattern = "bareLabel" ->           \* ': "$1"'
             <<":", " ", Quote>> \o Group(s, m, 2, 3) \o <<Quote>>
      [] pattern = "quotedLabel" ->         \* ': "$1"'
             <<":", " ", Quote>> \o Group(s, m, 4, 5) \o <<Quote>>

\* the positions of s where the pattern matches
MatchPositions(s, pattern) == {p \in 1..Len(s) : Match(pattern, s, p).ok}

\* the leftmost of them
Least(found) == CHOOSE p \in found : \A q \in found : p <= q

\* the leftmost position of found at or after i, 0 when there is none
NextMatch(found, i) ==
    IF \E p \in found : p >= i THEN Least({p \in found : p >= i}) ELSE 0

\* the matches a /g scan takes, leftmost first and not overlapping: the
\* first k of them from the match at position p on (p = 0: no match is left)
RECURSIVE Taken(_, _, _, _, _)
RECURSIVE TakenAfter(_, _, _, _, _)
TakenAfter(s, pattern, found, k, taken) ==
    IF taken = <<>> THEN <<>>
    ELSE taken \o Taken(s, pattern, found, NextMatch(found, taken[Len(taken)].end), k)

Taken(s, pattern, found, p, k) ==
    IF p = 0 \/ k = 0 THEN <<>>
    ELSE IF k = 1 THEN <<Match(pattern, s, p)>>
    ELSE TakenAfter(s, pattern, found, k - (k \div 2),
                    Taken(s, pattern, found, p, k \div 2))

\* all the matches of the scan; found: the positions where the pattern matches
TakenMatches(s, pattern, found) ==
    Taken(s, pattern, found, NextMatch(found, 1), Cardinality(found))

\* what replace makes of the text up to match hi, from the end of match
\* lo - 1 on: the text before each match as it is, the match replaced
RECURSIVE ReplacedRange(_, _, _, _, _)
ReplacedRange(s, pattern, taken, lo, hi) ==
    IF lo > hi THEN <<>>
    ELSE IF lo = hi
    THEN SubSeq(s, IF lo = 1 THEN 1 ELSE taken[lo - 1].end, taken[lo].ends[1] - 1)
         \o Replacement(pattern, s, taken[lo])
    ELSE ReplacedRange(s, pattern, taken, lo, (lo + hi) \div 2)
         \o ReplacedRange(s, pattern, taken, ((lo + hi) \div 2) + 1, hi)

\* the replaced text: the matches replaced, then the text after the last one
ReplaceTaken(s, pattern, taken) ==
    ReplacedRange(s, pattern, taken, 1, Len(taken))
    \o SubSeq(s, IF taken = <<>> THEN 1 ELSE taken[Len(taken)].end, Len(s))

\* String.prototype.replace(/.../g, ...)
ReplaceAll(s, pattern) ==
    ReplaceTaken(s, pattern, TakenMatches(s, pattern, MatchPositions(s, pattern)))

\* the three replace calls that space the relationship operators
SpaceOperators(s) ==
    ReplaceAll(ReplaceAll(ReplaceAll(s, "doubleDash"), "singleDash"), "emDash")

\* /^\s*\w+\s+{$/ on a trimmed line
IsEntityOpener(line) == Match("entityOpener", line, 1).ok

\* /^\s*\w+\s+\w+/ on a trimmed line
LooksLikeAttribute(line) ==
    LET nameEnd == WordEnd(line, 1)
        next == SpaceEnd(line, nameEnd)
    IN nameEnd > 1 /\ next > nameEnd /\ IsWord(CharAt(line, next))

\* /{\s*$/ on the line before
EndsWithOpenBrace(line) ==
    \E p \in 1..Len(line) : line[p] = "{" /\ SpaceEnd(line, p + 1) = Len(line) + 1

\* /^\s*\w+\s+(\|\||\}o|o\{).*--.*(\|\||\}o|o\{)\s+\w+/ on a trimmed line
LooksLikeRelationship(line) ==
    LET nameEnd == WordEnd(line, 1)
        first == SpaceEnd(line, nameEnd)
    IN /\ nameEnd > 1 /\ first > nameEnd
       /\ IsCardinalityAt(line, first)
       /\ \E d \in (first + 2)..Len(line) :
             /\ StartsWithAt(line, <<"-", "-">>, d)
             /\ \E g \in (d + 2)..Len(line) :
                   /\ IsCardinalityAt(line, g)
                   /\ SpaceEnd(line, g + 2) > g + 2
                   /\ IsWord(CharAt(line, SpaceEnd(line, g + 2)))

\* the four steps of the loop's body on one line: prev is the line before as
\* the loop left it, hasPrev is i > 0
IndentOpener(line) ==
    IF IsEntityOpener(Trim(line)) /\ ~StartsWith(line, Indent4)
    THEN Indent4 \o Trim(line) ELSE line

IndentCloser(line) ==
    IF Trim(line) = <<"}">> /\ ~StartsWith(line, Indent4)
    THEN Indent4 \o Trim(line) ELSE line

IndentAttribute(line, hasPrev, prev) ==
    IF /\ LooksLikeAttribute(Trim(line)) /\ ~StartsWith(line, Indent8)
       /\ hasPrev /\ EndsWithOpenBrace(prev)
    THEN Indent8 \o Trim(line) ELSE line

IndentRelationship(line) ==
    IF LooksLikeRelationship(Trim(line))
    THEN SpaceOperators(IF ~StartsWith(line, Indent4) THEN Indent4 \o Trim(line) ELSE line)
    ELSE line

\* the body of the loop over the lines, for one line
IndentLine(line, hasPrev, prev) ==
    IndentRelationship(IndentAttribute(IndentCloser(IndentOpener(line)), hasPrev, prev))

\* the loop over the lines lo..hi: what it leaves in lines[lo..hi], when
\* prev is what it left in lines[lo - 1] (hasPrev: lo > 1)
RECURSIVE IndentRange(_, _, _, _, _)
RECURSIVE IndentRest(_, _, _, _)
IndentRest(lines, mid, hi, done) ==
    done \o IndentRange(lines, mid + 1, hi, TRUE, done[Len(done)])

IndentRange(lines, lo, hi, hasPrev, prev) ==
    IF lo > hi THEN <<>>
    ELSE IF lo = hi THEN <<IndentLine(lines[lo], hasPrev, prev)>>
    ELSE IndentRest(lines, (lo + hi) \div 2, hi,
                    IndentRange(lines, lo, (lo + hi) \div 2, hasPrev, prev))

\* the loop over all the lines
IndentLines(lines) == IndentRange(lines, 1, Len(lines), FALSE, <<>>)

\* the replace calls ahead of the loop, in the order of the code: the brace
\* that closes an attribute block, the boundary between two blocks, the
\* relationship operators, the bare labels and the quoted labels
FixSpacing(mermaidSyntax) ==
    ReplaceAll(
      ReplaceAll(
        SpaceOperators(
          ReplaceAll(ReplaceAll(mermaidSyntax, "attributeBrace"), "blockBoundary")),
        "bareLabel"),
      "quotedLabel")

autoFormatMermaidSyntax(mermaidSyntax) ==
    IF mermaidSyntax = <<>> THEN mermaidSyntax
    ELSE JoinLines(IndentLines(SplitLines(FixSpacing(mermaidSyntax))))

----------------------------------------------------------------------------
(* mermaidGenerator.service.js: validateMermaidSyntax, checkStructuralErrors *)

ErDiagramHeader == <<"e","r","D","i","a","g","r","a","m",Newline>>

EntityLimit == 20
RelationshipLimit == 30

\* an entry of result.errors: the fixed part of its message, with the line
\* number and the entity name the message carries (0 and <<>> when it has none)
Error(kind, line, entity) == [kind |-> kind, line |-> line, entity |-> entity]

\* line.match(pattern), for the patterns the loop tries anywhere in the line
MatchesSomewhere(pattern, line) == \E p \in 1..Len(line) : Match(pattern, line, p).ok

\* /^\s*(\w+)\s+(\|\||}\o|\o\{)(--|\-\-|\u2014)(\|\||}\o|\o\{)\s+(\w+)/ on a trimmed line
IsBadRelationship(line) ==
    Match("badRelationship", line, 1).ok \/ Match("badEmDashRelationship", line, 1).ok

\* /^\s*(\w+)\s+(\|\||}\o|\o\{)\s+--\s+(\|\||}\o|\o\{)\s+(\w+)/ on a trimmed line
IsSpacedRelationship(line) == Match("relationship", line, 1).ok

\* /^\s*(\w+)\s+(\w+)(\s+.*)?$/ on a trimmed line
IsAttributeLine(line) ==
    LET typeEnd == WordEnd(line, 1)
        name == SpaceEnd(line, typeEnd)
        nameEnd == WordEnd(line, name)
    IN /\ typeEnd > 1 /\ name > typeEnd /\ nameEnd > name
       /\ nameEnd = Len(line) + 1 \/ IsSpace(CharAt(line, nameEnd))

\* the body of the loop of checkStructuralErrors for line i (1-based)
CheckLine(st, rawLine, i) ==
    LET line == Trim(rawLine)
    IN IF line = <<>> \/ StartsWith(line, <<"%", "%">>) THEN st
       ELSE IF IsEntityOpener(line)
       THEN LET entity == Group(line, Match("entityOpener", line, 1), 2, 3)
            IN [st EXCEPT !.currentEntity = entity,
                          !.entities = Append(@, entity),
                          !.openBraces = Append(@, [entity |-> entity, line |-> i])]
       ELSE IF MatchesSomewhere("blockBoundary", line)
       THEN [st EXCEPT !.isValid = FALSE,
                       !.errors = @ \o <<Error("MissingNewlineBetweenEntities", i, <<>>),
                                         Error("Hint", 0, <<>>)>>]
       ELSE IF MatchesSomewhere("missingNewlineBeforeBrace", line)
       THEN [st EXCEPT !.isValid = FALSE,
                       !.errors = @ \o <<Error("MissingNewlineBeforeClosingBrace", i, <<>>),
                                         Error("Fix", 0, <<>>),
                                         Error("ProperFormat", 0, <<>>)>>]
       ELSE IF line = <<"}">>
       THEN IF Len(st.openBraces) = 0
            THEN [st EXCEPT !.isValid = FALSE,
                            !.errors = Append(@, Error("UnexpectedClosingBrace", i, <<>>))]
            ELSE [st EXCEPT !.openBraces = SubSeq(@, 1, Len(@) - 1)]
       ELSE IF IsBadRelationship(line)
       THEN [st EXCEPT !.isValid = FALSE,
                       !.errors = @ \o <<Error("MalformedRelationship", i, <<>>),
                                         Error("Fix", 0, <<>>)>>]
       ELSE IF IsSpacedRelationship(line) /\ Len(st.openBraces) > 0
       THEN [st EXCEPT !.isValid = FALSE,
                       !.errors = Append(@, Error("RelationshipInsideEntity", i, <<>>))]
       ELSE IF Len(st.openBraces) > 0 /\ ~IsAttributeLine(line)
       THEN [st EXCEPT !.isValid = FALSE,
                       !.errors = Append(@, Error("MalformedAttribute", i, st.currentEntity))]
       ELSE st

\* the locals of checkStructuralErrors and the result object, before the loop
BeforeLoop(result) ==
    [openBraces |-> <<>>, entities |-> <<>>, currentEntity |-> Undefined,
     isValid |-> result.isValid, errors |-> result.errors]

\* the loop of checkStructuralErrors over the lines lo..hi, from the state
\* st: the states it is in after each of these lines
RECURSIVE CheckRange(_, _, _, _)
RECURSIVE CheckRest(_, _, _, _)
CheckRest(lines, states, mid, hi) ==
    states \o CheckRange(lines, states[Len(states)], mid + 1, hi)

CheckRange(lines, st, lo, hi) ==
    IF lo > hi THEN <<>>
    ELSE IF lo = hi THEN <<CheckLine(st, lines[lo], lo)>>
    ELSE CheckRest(lines, CheckRange(lines, st, lo, (lo + hi) \div 2),
                   (lo + hi) \div 2, hi)

\* the state the loop is in after the last of the states, st when there is none
LastOf(st, states) == IF states = <<>> THEN st ELSE states[Len(states)]

\* one "Unclosed entity definition" error per brace left open
RECURSIVE UnclosedErrors(_)
UnclosedErrors(openBraces) ==
    IF Len(openBraces) = 0 THEN <<>>
    ELSE <<Error("UnclosedEntity", openBraces[1].line, openBraces[1].entity)>>
         \o UnclosedErrors(Tail(openBraces))

\* one "Duplicate entity definition" error per name pushed more than once,
\* in the order of the names' first push
RECURSIVE DuplicateErrors(_, _)
DuplicateErrors(names, n) ==
    IF n = 0 THEN <<>>
    ELSE DuplicateErrors(names, n - 1) \o
         (IF /\ \A j \in 1..(n - 1) : names[j] # names[n]
             /\ \E j \in (n + 1)..Len(names) : names[j] = names[n]
          THEN <<Error("DuplicateEntity", 0, names[n])>> ELSE <<>>)

\* checkStructuralErrors(mermaidSyntax, result): the result object it leaves
\* the checks after the loop, on the state st the loop left
CheckAfterLoop(st) ==
    LET late == UnclosedErrors(st.openBraces) \o DuplicateErrors(st.entities, Len(st.entities))
    IN [isValid |-> st.isValid /\ late = <<>>, errors |-> st.errors \o late]

\* the loop of checkStructuralErrors over all the lines
CheckLines(lines, result) ==
    LastOf(BeforeLoop(result), CheckRange(lines, BeforeLoop(result), 1, Len(lines)))

checkStructuralErrors(mermaidSyntax, result) ==
    CheckAfterLoop(CheckLines(SplitLines(mermaidSyntax), result))

\* what the code reads off a match m: for an entity,
\* match.trim().split(/\s+/)[0].toLowerCase(); for a relationship, the first
\* part of the match and its last part made of word characters
MatchValue(pattern, s, m) ==
    CASE pattern = "entityUse" -> ToLowerCase(Group(s, m, 2, 3))
      [] pattern = "relationshipUse" ->
             [sourceEntity |-> ToLowerCase(Group(s, m, 2, 3)),
              targetEntity |-> ToLowerCase(Group(s, m, 10, 11))]

\* what the code reads off the matches lo..hi
RECURSIVE MatchValues(_, _, _, _, _)
MatchValues(s, pattern, taken, lo, hi) ==
    IF lo > hi THEN <<>>
    ELSE IF lo = hi THEN <<MatchValue(pattern, s, taken[lo])>>
    ELSE MatchValues(s, pattern, taken, lo, (lo + hi) \div 2)
         \o MatchValues(s, pattern, taken, ((lo + hi) \div 2) + 1, hi)

MatchValuesOf(s, pattern, taken) == MatchValues(s, pattern, taken, 1, Len(taken))

\* String.prototype.match(/.../g): the matches, leftmost first and not
\* overlapping
MatchAll(s, pattern) ==
    MatchValuesOf(s, pattern, TakenMatches(s, pattern, MatchPositions(s, pattern)))

\* the errors of the loop over the relationship matches lo..hi
RECURSIVE UndefinedEntityErrors(_, _, _, _)
UndefinedEntityErrors(matches, entityNames, lo, hi) ==
    IF lo > hi THEN <<>>
    ELSE IF lo = hi
    THEN (IF \E k \in 1..Len(entityNames) : entityNames[k] = matches[lo].sourceEntity
          THEN <<>> ELSE <<Error("UndefinedSourceEntity", 0, matches[lo].sourceEntity)>>)
         \o (IF \E k \in 1..Len(entityNames) : entityNames[k] = matches[lo].targetEntity
             THEN <<>> ELSE <<Error("UndefinedTargetEntity", 0, matches[lo].targetEntity)>>)
    ELSE UndefinedEntityErrors(matches, entityNames, lo, (lo + hi) \div 2)
         \o UndefinedEntityErrors(matches, entityNames, ((lo + hi) \div 2) + 1, hi)

\* a validator whose size warnings start at the limits themselves
CheckMatchesFromLimit(result, entityNames, relationshipMatches) ==
    LET size == (IF Len(entityNames) >= EntityLimit
                 THEN <<Error("TooManyEntities", 0, <<>>)>> ELSE <<>>)
                \o (IF Len(relationshipMatches) >= RelationshipLimit
                    THEN <<Error("TooManyRelationships", 0, <<>>)>> ELSE <<>>)
        undefined == UndefinedEntityErrors(relationshipMatches, entityNames,
                                           1, Len(relationshipMatches))
    IN [isValid |-> result.isValid /\ size = <<>> /\ undefined = <<>>,
        errors |-> result.errors \o size \o undefined]

\* the size limits and the loop over the relationship matches, on the result
\* checkStructuralErrors left
CheckMatches(result, entityNames, relationshipMatches) ==
    LET size == (IF Len(entityNames) > EntityLimit
                 THEN <<Error("TooManyEntities", 0, <<>>)>> ELSE <<>>)
                \o (IF Len(relationshipMatches) > RelationshipLimit
                    THEN <<Error("TooManyRelationships", 0, <<>>)>> ELSE <<>>)
        undefined == UndefinedEntityErrors(relationshipMatches, entityNames,
                                           1, Len(relationshipMatches))
    IN [isValid |-> result.isValid /\ size = <<>> /\ undefined = <<>>,
        errors |-> result.errors \o size \o undefined]

\* the checks on the formatted syntax
CheckFormatted(formattedSyntax) ==
    CheckMatches(checkStructuralErrors(formattedSyntax, [isValid |-> TRUE, errors |-> <<>>]),
                 MatchAll(formattedSyntax, "entityUse"),
                 MatchAll(formattedSyntax, "relationshipUse"))

validateMermaidSyntax(mermaidSyntax) ==
    IF mermaidSyntax = <<>> \/ mermaidSyntax = ErDiagramHeader
    THEN [isValid |-> FALSE, errors |-> <<Error("EmptyDiagram", 0, <<>>)>>]
    ELSE CheckFormatted(autoFormatMermaidSyntax(mermaidSyntax))

----------------------------------------------------------------------------
(* mermaidGenerator.service.js: generateMermaidERD and what it emits *)

\* a string property of an object is present and not empty
HasText(obj, field) == field \in DOMAIN obj /\ obj[field] \notin {<<>>, Undefined}

\* a flag of an object is present and true
HasFlag(obj, field) == field \in DOMAIN obj /\ obj[field] = TRUE

\* an object or an enumerated value is present under the name
Has(obj, field) == field \in DOMAIN obj

ReservedKeywords ==
    { <<"c","l","a","s","s">>, <<"b","r","e","a","k">>, <<"c","a","s","e">>,
      <<"c","a","t","c","h">>, <<"c","o","n","s","t">>,
      <<"c","o","n","t","i","n","u","e">>,
      <<"d","e","b","u","g","g","e","r">>, <<"d","e","f","a","u","l","t">>,
      <<"d","e","l","e","t","e">>, <<"d","o">>, <<"e","l","s","e">>,
      <<"e","x","p","o","r","t">>, <<"e","x","t","e","n","d","s">>,
      <<"f","i","n","a","l","l","y">>, <<"f","o","r">>,
      <<"f","u","n","c","t","i","o","n">>, <<"i","f">>,
      <<"i","m","p","o","r","t">>, <<"i","n">>,
      <<"i","n","s","t","a","n","c","e","o","f">>, <<"n","e","w">>,
      <<"r","e","t","u","r","n">>, <<"s","u","p","e","r">>,
      <<"s","w","i","t","c","h">>, <<"t","h","i","s">>,
      <<"t","h","r","o","w">>, <<"t","r","y">>, <<"t","y","p","e","o","f">>,
      <<"v","a","r">>, <<"v","o","i","d">>, <<"w","h","i","l","e">>,
      <<"w","i","t","h">>, <<"y","i","e","l","d">> }

Unnamed == <<"u","n","n","a","m","e","d">>
EntitySuffix == <<"_","e","n","t","i","t","y">>

\* name.replace(/[^\w]/g, '_')
ReplaceNonWord(name) == [i \in 1..Len(name) |-> IF IsWord(name[i]) THEN name[i] ELSE "_"]

sanitizeName(name) ==
    IF name = <<>> \/ name = Undefined THEN Unnamed
    ELSE IF ToLowerCase(ReplaceNonWord(name)) \in ReservedKeywords
         THEN ReplaceNonWord(name) \o EntitySuffix
         ELSE ReplaceNonWord(name)

NumberType == <<"n","u","m","b","e","r">>
StringType == <<"s","t","r","i","n","g">>
DateType == <<"d","a","t","e">>
BooleanType == <<"b","o","o","l","e","a","n">>

\* the four types an attribute line can carry
MermaidTypes == {NumberType, StringType, DateType, BooleanType}

\* lowerType.includes(...) for one of the words
IncludesAny(lowerType, subs) == \E sub \in subs : Includes(lowerType, sub)

NumberWords == {<<"i","n","t">>, <<"n","u","m","b","e","r">>, <<"d","e","c","i","m","a","l">>,
    <<"f","l","o","a","t">>, <<"d","o","u","b","l","e">>}
StringWords == {<<"c","h","a","r">>, <<"t","e","x","t">>, <<"s","t","r","i","n","g">>,
    <<"u","u","i","d">>, <<"j","s","o","n">>}
DateWords == {<<"d","a","t","e">>, <<"t","i","m","e">>}
BooleanWords == {<<"b","o","o","l">>}

mapDataType(dataType) ==
    IF dataType = <<>> \/ dataType = Undefined THEN StringType
    ELSE IF IncludesAny(ToLowerCase(dataType), NumberWords) THEN NumberType
    ELSE IF IncludesAny(ToLowerCase(dataType), StringWords) THEN StringType
    ELSE IF IncludesAny(ToLowerCase(dataType), DateWords) THEN DateType
    ELSE IF IncludesAny(ToLowerCase(dataType), BooleanWords) THEN BooleanType
    ELSE StringType

\* keyIndicator: read from column.primaryKey and column.foreignKey
KeyIndicator(column) ==
    IF HasFlag(column, "primaryKey") THEN <<"P","K">>
    ELSE IF HasFlag(column, "foreignKey") THEN <<"F","K">>
    ELSE <<>>

\* `        ${dataType} ${sanitizeName(column.name)} ${keyIndicator} ${nullableIndicator}\n`
AttributeLine(column) ==
    Indent8 \o mapDataType(column.dataType) \o <<" ">> \o sanitizeName(column.name)
        \o <<" ">> \o KeyIndicator(column) \o <<" ">> \o <<Newline>>

\* table.columns.forEach over the first n columns
RECURSIVE AttributeLinesOfFirst(_, _)
AttributeLinesOfFirst(columns, n) ==
    IF n = 0 THEN <<>>
    ELSE AttributeLinesOfFirst(columns, n - 1) \o AttributeLine(columns[n])

\* the name a block is opened with
BlockName(tableName) == ToLowerCase(sanitizeName(tableName))

generateEntityDefinition(table) ==
    IF ~HasText(table, "name") THEN <<>>
    ELSE Indent4 \o BlockName(table.name) \o <<" ", "{", Newline>>
         \o (IF "columns" \in DOMAIN table
             THEN AttributeLinesOfFirst(table.columns, Len(table.columns))
             ELSE <<>>)
         \o Indent4 \o <<"}", Newline, Newline>>

Relates == <<"r","e","l","a","t","e","s">>

\* relationshipName.replace(/"/g, '\\"')
RECURSIVE EscapeQuotes(_)
EscapeQuotes(s) ==
    IF s = <<>> THEN <<>>
    ELSE (IF Head(s) = Quote THEN <<"\\", Quote>> ELSE <<Head(s)>>) \o EscapeQuotes(Tail(s))

OneGlyph == <<"|","|">>
ManySourceGlyph == <<"}","o">>
ManyTargetGlyph == <<"o","{">>

\* sourceCardinality
SourceCardinality(relationship) ==
    IF Has(relationship, "cardinality")
    THEN (IF relationship.cardinality.source = "many" THEN ManySourceGlyph ELSE OneGlyph)
    ELSE IF Has(relationship, "type")
              /\ relationship.type \in {"many-to-one", "many-to-many"}
         THEN ManySourceGlyph
         ELSE OneGlyph

\* targetCardinality
TargetCardinality(relationship) ==
    IF Has(relationship, "cardinality")
    THEN (IF relationship.cardinality.target = "many" THEN ManyTargetGlyph ELSE OneGlyph)
    ELSE IF Has(relationship, "type")
              /\ relationship.type \in {"one-to-many", "many-to-many"}
         THEN ManyTargetGlyph
         ELSE OneGlyph

generateRelationshipDefinition(relationship) ==
    IF ~HasText(relationship, "sourceEntity") \/ ~HasText(relationship, "targetEntity")
    THEN <<>>
    ELSE Indent4 \o ToLowerCase(sanitizeName(relationship.sourceEntity)) \o <<" ">>
         \o SourceCardinality(relationship) \o <<" ", "-", "-", " ">>
         \o TargetCardinality(relationship) \o <<" ">>
         \o ToLowerCase(sanitizeName(relationship.targetEntity))
         \o <<" ", ":", " ", Quote>>
         \o EscapeQuotes(IF HasText(relationship, "name") THEN relationship.name ELSE Relates)
         \o <<Quote, Newline>>

\* schema.tables.forEach over the tables lo..hi
RECURSIVE EntityDefinitions(_, _, _)
EntityDefinitions(tables, lo, hi) ==
    IF lo > hi THEN <<>>
    ELSE IF lo = hi THEN generateEntityDefinition(tables[lo])
    ELSE EntityDefinitions(tables, lo, (lo + hi) \div 2)
         \o EntityDefinitions(tables, ((lo + hi) \div 2) + 1, hi)

\* schema.relationships.forEach over the relationships lo..hi
RECURSIVE RelationshipDefinitions(_, _, _)
RelationshipDefinitions(rels, lo, hi) ==
    IF lo > hi THEN <<>>
    ELSE IF lo = hi THEN generateRelationshipDefinition(rels[lo])
    ELSE RelationshipDefinitions(rels, lo, (lo + hi) \div 2)
         \o RelationshipDefinitions(rels, ((lo + hi) \div 2) + 1, hi)

\* mermaidSyntax before autoFormatMermaidSyntax is called on it
EmittedSyntax(sch) ==
    (<<"e","r","D","i","a","g","r","a","m",Newline>>
     \o EntityDefinitions(sch.tables, 1, Len(sch.tables)))
    \o (IF "relationships" \in DOMAIN sch
        THEN RelationshipDefinitions(sch.relationships, 1, Len(sch.relationships))
        ELSE <<>>)

\* '\n    %% Validation Warnings:\n'
WarningsHeader ==
    <<Newline>> \o Indent4 \o <<"%","%"," ","V","a","l","i","d","a","t","i","o","n"," ","W","a","r","n","i","n","g","s",":">> \o <<Newline>>

\* the line breaks inside the fixed part of a message
MessageBreaks(kind) ==
    CASE kind = "Hint" -> <<Newline, Newline>>
      [] kind = "ProperFormat" -> <<Newline, Newline, Newline, Newline>>
      [] OTHER -> <<>>

\* `${error}`: the text of one entry of validation.errors; the fixed part of
\* the message is one element, followed by the line number and the name the
\* message carries and by the line breaks it contains
MessageOf(error) ==
    <<error.kind, ToString(error.line)>> \o error.entity \o MessageBreaks(error.kind)

\* `    %% - ${error}\n`
WarningLine(error) ==
    Indent4 \o <<"%","%"," ","-"," ">> \o MessageOf(error) \o <<Newline>>

\* validation.errors.forEach over the errors lo..hi
RECURSIVE WarningLines(_, _, _)
WarningLines(errors, lo, hi) ==
    IF lo > hi THEN <<>>
    ELSE IF lo = hi THEN WarningLine(errors[lo])
    ELSE WarningLines(errors, lo, (lo + hi) \div 2)
         \o WarningLines(errors, ((lo + hi) \div 2) + 1, hi)

\* a generateMermaidERD that gives up the markup when the validator objects
\* and returns the warnings alone
AnnotatedSyntaxBlocking(mermaidSyntax, result) ==
    IF result.isValid THEN mermaidSyntax
    ELSE WarningsHeader \o WarningLines(result.errors, 1, Len(result.errors))

\* the text returned once the markup was repaired and validated
AnnotatedSyntax(mermaidSyntax, result) ==
    IF result.isValid THEN mermaidSyntax
    ELSE mermaidSyntax \o WarningsHeader
         \o WarningLines(result.errors, 1, Len(result.errors))

\* if (!schema || !schema.tables || !Array.isArray(schema.tables)): the schema
\* is null, or has no tables array
InvalidSchemaStructure(sch) == "tables" \notin DOMAIN sch

----------------------------------------------------------------------------
(* schema.controller.js: what the extraction paths hand to generateSchema *)

Student == <<"S","t","u","d","e","n","t">>
Course == <<"C","o","u","r","s","e">>
Order == <<"O","r","d","e","r">>
Customer == <<"C","u","s","t","o","m","e","r">>
CodeName == <<"c","o","d","e">>
TitleName == <<"t","i","t","l","e">>

\* the attributes processWithBasicNLP gives an entity with no extracted attribute
NlpAttributes ==
    << Attribute(IdName, INTEGER, "true", "undefined", "false", "undefined", Undefined, NoReferences),
       Attribute(NameName, VARCHAR255, "false", "undefined", "false", "undefined", Undefined, NoReferences),
       Attribute(CreatedAt, TIMESTAMP, "false", "undefined", "false", "undefined", CURRENT_TIMESTAMP, NoReferences),
       Attribute(UpdatedAt, TIMESTAMP, "false", "undefined", "false", "undefined", CURRENT_TIMESTAMP, NoReferences) >>

NlpEntity(n) == [name |-> n, attributes |-> NlpAttributes]

\* the junction entity processWithBasicNLP pushes for a MANY_TO_MANY relationship
JunctionEntity(s, t) ==
    [name |-> s \o <<"_">> \o t,
     attributes |->
        << Attribute(IdName, INTEGER, "true", "undefined", "false", "undefined", Undefined, NoReferences),
           Attribute(ToLowerCase(s) \o IdSuffix, INTEGER, "false", "true", "false", "undefined",
                     Undefined, EntityReference(s, IdName)),
           Attribute(ToLowerCase(t) \o IdSuffix, INTEGER, "false", "true", "false", "undefined",
                     Undefined, EntityReference(t, IdName)),
           Attribute(CreatedAt, TIMESTAMP, "false", "undefined", "false", "undefined",
                     CURRENT_TIMESTAMP, NoReferences) >>]

\* the key attribute processWithBasicNLP pushes onto a weak entity
WeakKeyAttribute(strong) ==
    Attribute(ToLowerCase(strong) \o IdSuffix, INTEGER, "true", "true", "false", "undefined",
              Undefined, EntityReference(strong, IdName))

\* entity lists of the rule-based path
NlpEntityLists ==
    { << NlpEntity(Student), NlpEntity(Course) >>,
      << NlpEntity(Order), NlpEntity(Customer) >> }

\* entity lists of the AI path (JSON.parse of the model's answer): an entity
\* without attributes, one keyed by a string code, one without a primary key
AiEntityLists ==
    { << [name |-> Student, attributes |-> <<>>],
         [name |-> Course, attributes |->
            << Attribute(CodeName, VARCHAR20, "true", "false", "false", "true", Undefined, NoReferences),
               Attribute(TitleName, Undefined, "false", "false", "undefined", "undefined", Undefined, NoReferences) >>] >>,
      << [name |-> Customer, attributes |->
            << Attribute(NameName, VARCHAR255, "false", "false", "false", "false", Undefined, NoReferences) >>],
         [name |-> Order, attributes |-> <<>>] >> }

\* relationship endpoints of the AI path: between listed entities, of an
\* entity with itself, and naming an entity the list may not hold
AiPairs ==
    { <<Student, Course>>, <<Course, Student>>, <<Student, Student>>,
      <<Customer, Order>>, <<Order, Customer>>, <<Student, Order>> }

CardinalityTypes == {"ONE_TO_ONE", "ONE_TO_MANY", "MANY_TO_ONE", "MANY_TO_MANY"}
AiTypes == {"ONE_TO_MANY", "MANY_TO_ONE", "MANY_TO_MANY"}

MaxRels == 2

Runs == {1, 2}

NoSchema == [tables |-> <<>>, relationships |-> <<>>, version |-> 0]

EntityNames(r) == {entities[r][i].name : i \in 1..Len(entities[r])}

\* the entity names the sentence patterns are tried on
NounNames == {Student, Course, Order, Customer}

Relationship(s, t, ty) == [sourceEntity |-> s, targetEntity |-> t, type |-> ty]

\* processWithBasicNLP, a match of a relationship pattern: first writer wins
\* on the key `${source}-${target}`; a MANY_TO_MANY match also pushes the
\* junction entity unless an entity of that name exists
ExtractRelationship(r, s, t, ty) ==
    /\ pc[r] = "extract" /\ path[r] = "nlp"
    /\ Len(relationships[r]) < MaxRels
    /\ s \in EntityNames(r) /\ t \in EntityNames(r) /\ s # t
    /\ (s \o <<"-">> \o t) \notin relationshipMap[r]
    /\ relationshipMap' = [relationshipMap EXCEPT ![r] = @ \cup {s \o <<"-">> \o t}]
    /\ relationships' = [relationships EXCEPT ![r] = Append(@, Relationship(s, t, ty))]
    /\ entities' = [entities EXCEPT ![r] =
                       IF ty = "MANY_TO_MANY" /\ (s \o <<"_">> \o t) \notin EntityNames(r)
                       THEN Append(@, JunctionEntity(s, t))
                       ELSE @]
    /\ UNCHANGED <<path, pc, schema>>
    /\ UNCHANGED <<markupVars, erdVars, textVars, storeVars>>

\* processWithBasicNLP, a match of a weak-entity pattern
ExtractWeakEntity(r, w, s) ==
    /\ pc[r] = "extract" /\ path[r] = "nlp"
    /\ Len(relationships[r]) < MaxRels
    /\ w \in EntityNames(r) /\ s \in EntityNames(r)
    /\ (w \o <<"-">> \o s \o <<"-","w","e","a","k">>) \notin relationshipMap[r]
    /\ relationshipMap' = [relationshipMap EXCEPT ![r] =
                              @ \cup {w \o <<"-">> \o s \o <<"-","w","e","a","k">>}]
    /\ relationships' = [relationships EXCEPT ![r] =
                            Append(@, Relationship(w, s, "IDENTIFYING_RELATIONSHIP"))]
    /\ LET entityIndex == CHOOSE i \in 1..Len(entities[r]) :
                              /\ entities[r][i].name = w
                              /\ \A j \in 1..(i - 1) : entities[r][j].name # w
           fk == WeakKeyAttribute(s)
           hasFK == \E j \in 1..Len(entities[r][entityIndex].attributes) :
                        entities[r][entityIndex].attributes[j].name = fk.name
       IN entities' = [entities EXCEPT ![r] =
                          IF hasFK THEN @
                          ELSE [@ EXCEPT ![entityIndex].attributes = Append(@, fk)]]
    /\ UNCHANGED <<path, pc, schema>>
    /\ UNCHANGED <<markupVars, erdVars, textVars, storeVars>>

\* processWithBasicNLP, two entities mentioned in one sentence, the earlier
\* of the list as the source: a relationship unless the key is taken; no
\* junction entity is pushed here
ExtractCoOccurrence(r, s, t, ty) ==
    /\ pc[r] = "extract" /\ path[r] = "nlp"
    /\ Len(relationships[r]) < MaxRels
    /\ \E i, j \in 1..Len(entities[r]) :
          i < j /\ entities[r][i].name = s /\ entities[r][j].name = t
    /\ (s \o <<"-">> \o t) \notin relationshipMap[r]
    /\ relationshipMap' = [relationshipMap EXCEPT ![r] = @ \cup {s \o <<"-">> \o t}]
    /\ relationships' = [relationships EXCEPT ![r] = Append(@, Relationship(s, t, ty))]
    /\ UNCHANGED <<path, entities, pc, schema>>
    /\ UNCHANGED <<markupVars, erdVars, textVars, storeVars>>

\* processWithAI: the relationships of the parsed answer, as they come
AIRelationship(r, s, t, ty) ==
    /\ pc[r] = "extract" /\ path[r] = "ai"
    /\ Len(relationships[r]) < MaxRels
    /\ relationships' = [relationships EXCEPT ![r] = Append(@, Relationship(s, t, ty))]
    /\ UNCHANGED <<path, entities, relationshipMap, pc, schema>>
    /\ UNCHANGED <<markupVars, erdVars, textVars, storeVars>>

\* a generateSchema that numbers its schemas with a counter shared by the
\* calls of the process: the second call to finish sees the first one's mark
GenerateCounting(r) ==
    /\ pc[r] = "extract"
    /\ schema' = [schema EXCEPT ![r] =
                     [generateSchema(entities[r], relationships[r]) EXCEPT
                         !.version = 1 + Cardinality({q \in Runs : pc[q] = "done"})]]
    /\ pc' = [pc EXCEPT ![r] = "done"]
    /\ UNCHANGED <<path, entities, relationships, relationshipMap>>
    /\ UNCHANGED <<markupVars, erdVars, textVars, storeVars>>

\* the controller's call of schemaGeneratorService.generateSchema
Generate(r) ==
    /\ pc[r] = "extract"
    /\ schema' = [schema EXCEPT ![r] = generateSchema(entities[r], relationships[r])]
    /\ pc' = [pc EXCEPT ![r] = "done"]
    /\ UNCHANGED <<path, entities, relationships, relationshipMap>>
    /\ UNCHANGED <<markupVars, erdVars, textVars, storeVars>>

\* const result = { isValid: true, errors: [] }
NoValidation == [isValid |-> TRUE, errors |-> <<>>]

\* no markup is being edited
MarkupIdle ==
    /\ markup = <<>>
    /\ appended = 0
    /\ formatted = <<>>
    /\ reformatted = <<>>
    /\ validation = NoValidation
    /\ mpc = "idle"

\* no schema is being rendered
ErdIdle ==
    /\ erdSchema = NoSchema
    /\ pushed = 0
    /\ emitted = <<>>
    /\ repaired = <<>>
    /\ checked = NoValidation
    /\ returned = <<>>
    /\ epc = "idle"

\* no text is being read
TextIdle ==
    /\ text = [isString |-> TRUE, chars |-> <<>>]
    /\ typed = 0
    /\ ai = "unavailable"
    /\ tagged = [outcome |-> "unusable", nouns |-> {}]
    /\ extracted = [outcome |-> "none"]
    /\ tpc = "idle"

\* request slots of updateSchema
Requests == {1, 2}

NoUpdates == [name |-> "", version |-> 0]
NoRequest == [pc |-> "idle", id |-> 0, updates |-> NoUpdates]
NoResponse == [handler |-> "none", status |-> 0, id |-> 0, schemaId |-> 0]

\* nothing is stored and no request is being handled
StoreIdle ==
    /\ schemaStore = <<>>
    /\ sessionStore = <<>>
    /\ requests = [q \in Requests |-> NoRequest]
    /\ ledger = <<>>
    /\ response = NoResponse

\* no pipeline run is under way
SchemaIdle ==
    /\ path = [r \in Runs |-> "none"]
    /\ entities = [r \in Runs |-> <<>>]
    /\ relationships = [r \in Runs |-> <<>>]
    /\ relationshipMap = [r \in Runs |-> {}]
    /\ pc = [r \in Runs |-> "idle"]
    /\ schema = [r \in Runs |-> NoSchema]

\* one pipeline run
Init ==
    /\ MarkupIdle
    /\ ErdIdle
    /\ TextIdle
    /\ StoreIdle
    /\ path \in {p \in [Runs -> {"nlp", "ai", "none"}] : p[1] # "none" /\ p[2] = "none"}
    /\ entities \in {e \in [Runs -> NlpEntityLists \cup AiEntityLists \cup {<<>>}] :
                        /\ e[2] = <<>>
                        /\ path[1] = "nlp" => e[1] \in NlpEntityLists
                        /\ path[1] = "ai" => e[1] \in AiEntityLists}
    /\ relationships = [r \in Runs |-> <<>>]
    /\ relationshipMap = [r \in Runs |-> {}]
    /\ pc = [r \in Runs |-> IF r = 1 THEN "extract" ELSE "idle"]
    /\ schema = [r \in Runs |-> NoSchema]

Next ==
    \/ \E s, t \in NounNames, ty \in CardinalityTypes :
          ExtractRelationship(1, s, t, ty)
    \/ \E w, s \in NounNames : ExtractWeakEntity(1, w, s)
    \/ \E s, t \in NounNames, ty \in CardinalityTypes :
          ExtractCoOccurrence(1, s, t, ty)
    \/ \E p \in AiPairs, ty \in AiTypes : AIRelationship(1, p[1], p[2], ty)
    \/ Generate(1)

Spec == Init /\ [][Next]_vars

----------------------------------------------------------------------------
(* Two pipeline runs side by side *)

\* extractions handed to generateSchema by two concurrent requests
RunInputs ==
    { [path |-> "nlp", entities |-> <<NlpEntity(Student), NlpEntity(Course)>>,
       relationships |-> <<>>],
      [path |-> "nlp", entities |-> <<NlpEntity(Order), NlpEntity(Customer)>>,
       relationships |-> <<Relationship(Customer, Order, "ONE_TO_MANY")>>],
      [path |-> "nlp",
       entities |-> <<NlpEntity(Student), NlpEntity(Course), JunctionEntity(Student, Course)>>,
       relationships |-> <<Relationship(Student, Course, "MANY_TO_MANY")>>],
      [path |-> "ai",
       entities |-> <<[name |-> Student, attributes |-> <<>>],
                      [name |-> Course, attributes |-> <<>>]>>,
       relationships |-> <<Relationship(Student, Course, "MANY_TO_MANY")>>],
      [path |-> "ai",
       entities |-> <<[name |-> Student, attributes |-> <<>>],
                      [name |-> Course, attributes |-> <<>>]>>,
       relationships |-> <<Relationship(Course, Student, "ONE_TO_MANY"),
                           Relationship(Student, Order, "ONE_TO_MANY")>>],
      [path |-> "ai",
       entities |-> <<[name |-> Customer, attributes |-> <<>>],
                      [name |-> Order, attributes |-> <<>>]>>,
       relationships |-> <<Relationship(Order, Customer, "MANY_TO_ONE")>>] }

\* a further request on the same process: a fresh extraction, a fresh call
NextRequest(r, in) ==
    /\ pc[r] = "done"
    /\ path' = [path EXCEPT ![r] = in.path]
    /\ entities' = [entities EXCEPT ![r] = in.entities]
    /\ relationships' = [relationships EXCEPT ![r] = in.relationships]
    /\ pc' = [pc EXCEPT ![r] = "extract"]
    /\ schema' = [schema EXCEPT ![r] = NoSchema]
    /\ UNCHANGED relationshipMap
    /\ UNCHANGED <<markupVars, erdVars, textVars, storeVars>>

InitRuns ==
    /\ MarkupIdle
    /\ ErdIdle
    /\ TextIdle
    /\ StoreIdle
    /\ \E in \in [Runs -> RunInputs] :
          /\ path = [r \in Runs |-> in[r].path]
          /\ entities = [r \in Runs |-> in[r].entities]
          /\ relationships = [r \in Runs |-> in[r].relationships]
    /\ relationshipMap = [r \in Runs |-> {}]
    /\ pc = [r \in Runs |-> "extract"]
    /\ schema = [r \in Runs |-> NoSchema]

NextRuns ==
    \/ \E r \in Runs : Generate(r)
    \/ \E r \in Runs, in \in RunInputs : NextRequest(r, in)

SpecRuns == InitRuns /\ [][NextRuns]_vars

----------------------------------------------------------------------------
(* Diagram markup handed to autoFormatMermaidSyntax and validateMermaidSyntax *)

\* the markup of the repair scenario: two blocks with no separators
ScenarioMarkup == <<"a","{","n","a","m","e"," ","s","t","r","i","n","g","}",
    "b","{","i","d"," ","i","n","t","}">>

\* a block that is opened and not yet closed
OpenBlock == <<" "," "," "," ","a"," ","{",Newline," "," "," "," "," "," ",
    " "," ","s","t","r","i","n","g"," ","n","a","m","e",Newline>>

\* an opener with no space before the brace
BareOpener == <<"a","{">>

\* a complete block
ClosedBlock == <<" "," "," "," ","a"," ","{",Newline," "," "," "," "," ",
    " "," "," ","s","t","r","i","n","g"," ","n","a","m","e",Newline," "," ",
    " "," ","}",Newline>>

\* a relationship operator written without spaces
TightRelationship == <<"a"," ","|","|","-","-","|","|">>

\* a relationship with an unquoted label
LabelledRelationship == <<" "," "," "," ","a"," ","|","|"," ","-","-"," ",
    "o","{"," ","a"," ",":"," ","h","a","s">>

\* a complete block followed by a relationship line of that block with
\* itself, its operator written without spaces: 'a ||--o{ a'
TightDiagram ==
    ClosedBlock \o <<" "," "," "," ","a"," ","|","|","-","-","o","{"," ","a">>

\* a block of two attributes written without indentation
FlatBlock ==
    <<"a"," ","{",Newline,"s","t","r","i","n","g"," ","n","a","m","e",Newline,
      "s","t","r","i","n","g"," ","c","o","d","e",Newline,"}">>

\* markup the editing starts from
MarkupSeeds ==
    { <<>>, ErDiagramHeader, ScenarioMarkup, OpenBlock, BareOpener, ClosedBlock,
      TightRelationship, LabelledRelationship, TightDiagram, FlatBlock }

\* what one edit appends: a name, white space, a brace, a cardinality
\* glyph, a dash of each kind, a colon, a quote
MarkupTokens ==
    { <<"a">>, <<"b">>, <<" ">>, <<Newline>>, <<"{">>, <<"}">>,
      <<"|", "|">>, <<"}", "o">>, <<"o", "{">>,
      <<"-", "-">>, <<"-">>, <<EmDash>>, <<":">>, <<Quote>> }

MaxTokens == 2

\* the caller's markup grows by one token
AppendToken(tok) ==
    /\ mpc = "edit"
    /\ appended < MaxTokens
    /\ markup' = markup \o tok
    /\ appended' = appended + 1
    /\ UNCHANGED <<formatted, reformatted, validation, mpc>>
    /\ UNCHANGED <<schemaVars, erdVars, textVars, storeVars>>

\* a call of autoFormatMermaidSyntax on the markup
AutoFormat ==
    /\ mpc = "edit"
    /\ formatted' = autoFormatMermaidSyntax(markup)
    /\ mpc' = "formatted"
    /\ UNCHANGED <<markup, appended, reformatted, validation>>
    /\ UNCHANGED <<schemaVars, erdVars, textVars, storeVars>>

\* a call of autoFormatMermaidSyntax on what the first call returned
AutoFormatAgain ==
    /\ mpc = "formatted"
    /\ reformatted' = autoFormatMermaidSyntax(formatted)
    /\ mpc' = "reformatted"
    /\ UNCHANGED <<markup, appended, formatted, validation>>
    /\ UNCHANGED <<schemaVars, erdVars, textVars, storeVars>>

\* a call of validateMermaidSyntax on the markup
Validate ==
    /\ mpc = "edit"
    /\ validation' = validateMermaidSyntax(markup)
    /\ mpc' = "validated"
    /\ UNCHANGED <<markup, appended, formatted, reformatted>>
    /\ UNCHANGED <<schemaVars, erdVars, textVars, storeVars>>

InitMarkup ==
    /\ SchemaIdle
    /\ ErdIdle
    /\ TextIdle
    /\ StoreIdle
    /\ markup \in MarkupSeeds
    /\ appended = 0
    /\ formatted = <<>>
    /\ reformatted = <<>>
    /\ validation = NoValidation
    /\ mpc = "edit"

NextMarkup ==
    \/ \E tok \in MarkupTokens : AppendToken(tok)
    \/ AutoFormat
    \/ AutoFormatAgain
    \/ Validate

SpecMarkup == InitMarkup /\ [][NextMarkup]_vars

----------------------------------------------------------------------------
(* Schemas handed to generateMermaidERD *)

\* schema is null
NullSchema == [null |-> TRUE]

\* a schema object with no tables property
TablelessSchema == [relationships |-> <<>>]

\* the schemas generateSchema returns for the extractions of RunInputs
SynthesizedSchemas == {generateSchema(in.entities, in.relationships) : in \in RunInputs}

\* the schemas a caller starts from
ErdSchemas == {NullSchema, TablelessSchema, NoSchema} \cup SynthesizedSchemas

\* relationship types in the spelling generateRelationshipDefinition compares with
HyphenTypes == {"one-to-many", "many-to-one", "many-to-many"}

HasName == <<"h","a","s">>

\* relationship objects in the shape generateRelationshipDefinition reads:
\* with a type in the extractor's spelling, with a type in the spelling the
\* emitter compares with, with a cardinality object, with a name, and with
\* none of them
ErdRelationships ==
    {Relationship(Student, Course, ty) : ty \in CardinalityTypes}
    \cup {Relationship(Customer, Order, ty) : ty \in HyphenTypes}
    \cup { [sourceEntity |-> Student, targetEntity |-> Course,
            cardinality |-> [source |-> "many", target |-> "many"]],
           [sourceEntity |-> Student, targetEntity |-> Order],
           [sourceEntity |-> Customer, targetEntity |-> Order, name |-> HasName] }

MaxAdded == 1

\* the caller pushes a relationship onto schema.relationships
AddRelationship(rel) ==
    /\ epc = "schema"
    /\ pushed < MaxAdded
    /\ Has(erdSchema, "tables") /\ Has(erdSchema, "relationships")
    /\ erdSchema' = [erdSchema EXCEPT !.relationships = Append(@, rel)]
    /\ pushed' = pushed + 1
    /\ UNCHANGED <<emitted, repaired, checked, returned, epc>>
    /\ UNCHANGED <<schemaVars, markupVars, textVars, storeVars>>

\* a call of generateMermaidERD(schema): it throws on a schema without a
\* tables array; otherwise it builds the markup, repairs it, validates the
\* repaired markup and returns it with the warnings appended
generateMermaidERD ==
    /\ epc = "schema"
    /\ IF InvalidSchemaStructure(erdSchema)
       THEN /\ epc' = "thrown"
            /\ UNCHANGED <<emitted, repaired, checked, returned>>
       ELSE /\ emitted' = EmittedSyntax(erdSchema)
            /\ repaired' = autoFormatMermaidSyntax(emitted')
            /\ checked' = validateMermaidSyntax(repaired')
            /\ returned' = AnnotatedSyntax(repaired', checked')
            /\ epc' = "returned"
    /\ UNCHANGED <<erdSchema, pushed>>
    /\ UNCHANGED <<schemaVars, markupVars, textVars, storeVars>>

InitErd ==
    /\ SchemaIdle
    /\ MarkupIdle
    /\ TextIdle
    /\ StoreIdle
    /\ erdSchema \in ErdSchemas
    /\ pushed = 0
    /\ emitted = <<>>
    /\ repaired = <<>>
    /\ checked = NoValidation
    /\ returned = <<>>
    /\ epc = "schema"

NextErd ==
    \/ \E rel \in ErdRelationships : AddRelationship(rel)
    \/ generateMermaidERD

SpecErd == InitErd /\ [][NextErd]_vars

----------------------------------------------------------------------------
(* Schemas at the size limits of validateMermaidSyntax *)

\* names for the tables of a large schema
Letters ==
    <<"a","b","c","d","e","f","g","h","i","j","k","l","m",
      "n","p","q","r","s","t","u","v","w","x","y","z">>

\* the i-th table of a large schema: a name and no column
SizeTable(i) == [name |-> <<Letters[i]>>, columns |-> <<>>]

\* the i-th relationship of a large schema, between two of its first
\* EntityLimit tables
SizeRelationship(i, ty) ==
    Relationship(<<Letters[((i - 1) % EntityLimit) + 1]>>, <<Letters[(i % EntityLimit) + 1]>>, ty)

RECURSIVE SizeTables(_)
SizeTables(n) == IF n = 0 THEN <<>> ELSE Append(SizeTables(n - 1), SizeTable(n))

RECURSIVE SizeRelationships(_)
SizeRelationships(m) ==
    IF m = 0 THEN <<>> ELSE Append(SizeRelationships(m - 1), SizeRelationship(m, "one-to-many"))

\* a schema of n tables and m relationships
SizedSchema(n, m) == [tables |-> SizeTables(n), relationships |-> SizeRelationships(m)]

\* the schemas a caller starts from: empty or at a limit
SizedSchemas ==
    {SizedSchema(n, m) : n \in {0, EntityLimit}, m \in {0, RelationshipLimit}}

MaxPushed == 2

\* the caller pushes one more table onto schema.tables
PushTable ==
    /\ epc = "schema"
    /\ pushed < MaxPushed
    /\ erdSchema' = [erdSchema EXCEPT !.tables = Append(@, SizeTable(Len(@) + 1))]
    /\ pushed' = pushed + 1
    /\ UNCHANGED <<emitted, repaired, checked, returned, epc>>
    /\ UNCHANGED <<schemaVars, markupVars, textVars, storeVars>>

\* the caller pushes one more relationship onto schema.relationships
PushRelationship(ty) ==
    /\ epc = "schema"
    /\ pushed < MaxPushed
    /\ erdSchema' = [erdSchema EXCEPT !.relationships =
                        Append(@, SizeRelationship(Len(@) + 1, ty))]
    /\ pushed' = pushed + 1
    /\ UNCHANGED <<emitted, repaired, checked, returned, epc>>
    /\ UNCHANGED <<schemaVars, markupVars, textVars, storeVars>>

InitSize ==
    /\ SchemaIdle
    /\ MarkupIdle
    /\ TextIdle
    /\ StoreIdle
    /\ erdSchema \in SizedSchemas
    /\ pushed = 0
    /\ emitted = <<>>
    /\ repaired = <<>>
    /\ checked = NoValidation
    /\ returned = <<>>
    /\ epc = "schema"

NextSize ==
    \/ PushTable
    \/ \E ty \in HyphenTypes : PushRelationship(ty)
    \/ generateMermaidERD

SpecSize == InitSize /\ [][NextSize]_vars

----------------------------------------------------------------------------
(* schema.controller.js: extractEntities, processWithBasicNLP and           *)
(* fallbackEntityExtraction on a text                                      *)

\* a string handed to extractEntities
TextOf(chars) == [isString |-> TRUE, chars |-> chars]

\* a value that is no string: a number, an object
NotText == [isString |-> FALSE, chars |-> <<>>]

\* String.prototype.split(/\s+/)
RECURSIVE SplitWhitespace(_)
SplitWhitespace(s) ==
    IF \A k \in 1..Len(s) : ~IsSpace(s[k]) THEN <<s>>
    ELSE <<SubSeq(s, 1, RunEnd(s, 1, "\\S") - 1)>>
         \o SplitWhitespace(SubSeq(s, SpaceEnd(s, RunEnd(s, 1, "\\S")), Len(s)))

\* tokenizer.tokenize(text), for a text of words and white space
Tokenize(s) == SelectSeq(SplitWhitespace(s), LAMBDA w : w # <<>>)

\* toTitleCase: str.replace(/\w\S*/g, txt => first letter upper, rest lower)
toTitleCase(str) ==
    [i \in 1..Len(str) |->
        IF \E j \in 1..(i - 1) : IsWord(str[j]) /\ \A k \in j..(i - 1) : ~IsSpace(str[k])
        THEN LowerOf(str[i])
        ELSE IF IsWord(str[i]) THEN UpperOf(str[i]) ELSE str[i]]

\* the items of a list without the repetitions of earlier items:
\* [...new Set(items)], over the first n items
RECURSIVE UniqueOfFirst(_, _)
UniqueOfFirst(items, n) ==
    IF n = 0 THEN <<>>
    ELSE UniqueOfFirst(items, n - 1)
         \o (IF \E k \in 1..(n - 1) : items[k] = items[n] THEN <<>> ELSE <<items[n]>>)

Unique(items) == UniqueOfFirst(items, Len(items))

Stopwords ==
    { <<"a">>, <<"a","n">>, <<"t","h","e">>, <<"a","n","d">>, <<"o","r">>,
      <<"b","u","t">>, <<"f","o","r">>, <<"w","i","t","h">>, <<"i","n">>,
      <<"o","n">>, <<"a","t">>, <<"t","o">>, <<"o","f">> }

\* commonDbEntities, in the order of the list
CommonDbEntities ==
    << <<"u","s","e","r">>, <<"p","r","o","d","u","c","t">>,
      <<"o","r","d","e","r">>, <<"c","u","s","t","o","m","e","r">>,
      <<"a","c","c","o","u","n","t">>, <<"c","a","t","e","g","o","r","y">>,
      <<"p","r","o","f","i","l","e">>, <<"i","t","e","m">>,
      <<"i","n","v","o","i","c","e">>, <<"p","a","y","m","e","n","t">>,
      <<"a","d","d","r","e","s","s">>, <<"c","o","m","m","e","n","t">>,
      <<"r","e","v","i","e","w">>, <<"p","o","s","t">>,
      <<"i","m","a","g","e">>, <<"t","a","g">>,
      <<"t","r","a","n","s","a","c","t","i","o","n">> >>

\* the attributes fallbackEntityExtraction gives every entity
FallbackAttributes ==
    << Attribute(IdName, INTEGER, "true", "undefined", "false", "undefined", Undefined, NoReferences),
       Attribute(NameName, VARCHAR255, "false", "undefined", "false", "undefined", Undefined, NoReferences),
       Attribute(CreatedAt, TIMESTAMP, "false", "undefined", "false", "undefined", CURRENT_TIMESTAMP, NoReferences) >>

\* uniqueEntities.map(noun => ({ name: toTitleCase(noun), attributes }))
FallbackEntities(nouns) ==
    [i \in 1..Len(nouns) |-> [name |-> toTitleCase(nouns[i]), attributes |-> FallbackAttributes]]

\* the loops for (i) for (j = i + 1) of fallbackEntityExtraction, from the
\* pair (i, j) on: a ONE_TO_MANY relationship for every pair of entities
RECURSIVE PairsFrom(_, _, _)
PairsFrom(ents, i, j) ==
    IF i >= Len(ents) THEN <<>>
    ELSE IF j > Len(ents) THEN PairsFrom(ents, i + 1, i + 2)
    ELSE <<Relationship(ents[i].name, ents[j].name, "ONE_TO_MANY")>> \o PairsFrom(ents, i, j + 1)

\* the words of the text that fallbackEntityExtraction keeps as tokens
FallbackTokens(chars) ==
    SelectSeq(SplitWhitespace(chars),
              LAMBDA word : Len(word) > 3 /\ ToLowerCase(word) \notin Stopwords)

\* potentialEntities: the common entities the lowercased text includes, then
\* the tokens whose first character is its own upper case
FallbackNouns(chars) ==
    SelectSeq(CommonDbEntities, LAMBDA entity : Includes(ToLowerCase(chars), entity))
    \o SelectSeq(FallbackTokens(chars), LAMBDA token : token[1] = UpperOf(token[1]))

\* extractEntities threw
Thrown == [outcome |-> "thrown"]

\* extractEntities returned an object with these arrays
Returned(via, ents, rels) ==
    [outcome |-> "returned", via |-> via, entities |-> ents, relationships |-> rels]

\* text.split throws when text is no string
fallbackEntityExtraction(input) ==
    IF ~input.isString THEN Thrown
    ELSE Returned("fallback",
                  FallbackEntities(Unique(FallbackNouns(input.chars))),
                  PairsFrom(FallbackEntities(Unique(FallbackNouns(input.chars))), 1, 2))

\* nouns the extractor skips as generic
GenericTerms ==
    { <<"d","a","t","a","b","a","s","e">>, <<"s","y","s","t","e","m">>,
      <<"s","c","h","e","m","a">>, <<"d","e","t","a","i","l">>,
      <<"i","n","f","o","r","m","a","t","i","o","n">>, <<"d","a","t","a">> }

\* the tokens tagged NN*, lowercased
Nouns(tokens, marked) ==
    [k \in 1..Len(SelectSeq([i \in 1..Len(tokens) |-> i], LAMBDA i : i \in marked)) |->
        ToLowerCase(tokens[SelectSeq([i \in 1..Len(tokens) |-> i], LAMBDA i : i \in marked)[k]])]

\* commonEntities
CommonEntities(nouns) ==
    SelectSeq(Unique(nouns), LAMBDA noun : Len(noun) > 3 /\ noun \notin GenericTerms)

\* entity.endsWith('s') ? entity.slice(0, -1) : entity
SingularForm(entity) ==
    IF Len(entity) > 0 /\ entity[Len(entity)] = "s"
    THEN SubSeq(entity, 1, Len(entity) - 1) ELSE entity

\* entitiesMap over the first n potential entities: the first form met for
\* each key, in the order the keys were set
RECURSIVE EntityFormsOfFirst(_, _)
EntityFormsOfFirst(potential, n) ==
    IF n = 0 THEN <<>>
    ELSE EntityFormsOfFirst(potential, n - 1)
         \o (IF \E k \in 1..(n - 1) : SingularForm(potential[k]) = SingularForm(potential[n])
             THEN <<>> ELSE <<potential[n]>>)

\* the entities of the main path: no attribute pattern has matched
MainEntities(forms) == [i \in 1..Len(forms) |-> NlpEntity(toTitleCase(forms[i]))]

\* inferRelationshipType(sentence, sourceEntity, targetEntity)
inferRelationshipType(sentence, s, t) ==
    IF \/ Includes(sentence, <<"m","a","n","y","-","t","o","-","m","a","n","y">>)
       \/ /\ Includes(sentence, <<"m","a","n","y">>)
          /\ Includes(sentence, <<"m","u","l","t","i","p","l","e">>)
          /\ Includes(sentence, s) /\ Includes(sentence, t)
    THEN "MANY_TO_MANY"
    ELSE IF \/ Includes(sentence, <<"o","n","e","-","t","o","-","o","n","e">>)
            \/ Includes(sentence, <<"e","a","c","h"," ">> \o s \o <<" ","h","a","s"," ","e","x","a","c","t","l","y"," ","o","n","e"," ">> \o t)
            \/ Includes(sentence, <<"e","a","c","h"," ">> \o t \o <<" ","h","a","s"," ","e","x","a","c","t","l","y"," ","o","n","e"," ">> \o s)
    THEN "ONE_TO_ONE"
    ELSE IF \/ Includes(sentence, s \o <<"s"," ","b","e","l","o","n","g"," ","t","o"," ","o","n","e"," ">> \o t)
            \/ Includes(sentence, <<"m","u","l","t","i","p","l","e"," ">> \o s \o <<"s"," ","p","e","r"," ">> \o t)
            \/ Includes(sentence, t \o <<" ","h","a","s"," ","m","a","n","y"," ">> \o s \o <<"s">>)
    THEN "MANY_TO_ONE"
    ELSE "ONE_TO_MANY"

\* the co-occurrence loops from the pair (i, j) on, over the entities the
\* sentence mentions: the relationship and the key it is stored under
RECURSIVE CoOccurrencesFrom(_, _, _, _)
CoOccurrencesFrom(sentence, mentioned, i, j) ==
    IF i >= Len(mentioned) THEN <<>>
    ELSE IF j > Len(mentioned) THEN CoOccurrencesFrom(sentence, mentioned, i + 1, i + 2)
    ELSE << [key |-> mentioned[i].name \o <<"-">> \o mentioned[j].name,
             value |-> Relationship(mentioned[i].name, mentioned[j].name,
                                    inferRelationshipType(sentence,
                                                          ToLowerCase(mentioned[i].name),
                                                          ToLowerCase(mentioned[j].name)))] >>
         \o CoOccurrencesFrom(sentence, mentioned, i, j + 1)

\* relationshipMap.set unless the key is taken, over the first n entries;
\* Array.from(relationshipMap.values())
RECURSIVE MapValuesOfFirst(_, _)
MapValuesOfFirst(entries, n) ==
    IF n = 0 THEN <<>>
    ELSE MapValuesOfFirst(entries, n - 1)
         \o (IF \E k \in 1..(n - 1) : entries[k].key = entries[n].key
             THEN <<>> ELSE <<entries[n].value>>)

\* the relationships of a text that is one sentence and matches no
\* relationship pattern: those of the co-occurrence loops
CoOccurrenceRelationships(sentence, ents) ==
    MapValuesOfFirst(
        CoOccurrencesFrom(sentence,
                          SelectSeq(ents, LAMBDA e : Includes(sentence, ToLowerCase(e.name))),
                          1, 2),
        Len(CoOccurrencesFrom(sentence,
                          SelectSeq(ents, LAMBDA e : Includes(sentence, ToLowerCase(e.name))),
                          1, 2)))

\* the result of the main path for the entities it made
MainResult(chars, ents) ==
    Returned("nlp", ents, CoOccurrenceRelationships(ToLowerCase(chars), ents))

\* processWithBasicNLP(text): text.match throws on a value that is no
\* string, the tagger may throw, and the catch calls the fallback; an
\* unusable tagging result goes to the fallback too
processWithBasicNLP(input, tagging) ==
    IF ~input.isString \/ tagging.outcome \in {"throws", "unusable"}
    THEN fallbackEntityExtraction(input)
    ELSE MainResult(input.chars,
                    MainEntities(EntityFormsOfFirst(
                        CommonEntities(Nouns(Tokenize(input.chars), tagging.nouns)),
                        Len(CommonEntities(Nouns(Tokenize(input.chars), tagging.nouns))))))

\* an extractEntities that lets the failure of the AI path reach its caller
OnAIFailureRethrow(input, tagging) == Thrown

\* catch (aiError) { return processWithBasicNLP(text) }
OnAIFailure(input, tagging) == processWithBasicNLP(input, tagging)

\* what the tagger can do with the tokens: return nothing usable, throw, or
\* tag some of them as nouns
Taggings(input) ==
    {[outcome |-> o, nouns |-> {}] : o \in {"unusable", "throws"}}
    \cup {[outcome |-> "tagged", nouns |-> marked] :
             marked \in SUBSET (1..Len(Tokenize(input.chars)))}

\* words a caller types
UserLower == <<"u","s","e","r">>
UserTitle == <<"U","s","e","r">>
UsersTitle == <<"U","s","e","r","s">>
Orders == <<"o","r","d","e","r","s">>
Princes == <<"p","r","i","n","c","e","s">>
Princess == <<"p","r","i","n","c","e","s","s">>

Words == {UserLower, UserTitle, UsersTitle, Orders, Princes, Princess}

MaxWords == 2

\* the caller's text grows by one word
TypeWord(w) ==
    /\ tpc = "text"
    /\ text.isString
    /\ typed < MaxWords
    /\ text' = TextOf(IF text.chars = <<>> THEN w ELSE text.chars \o <<" ">> \o w)
    /\ typed' = typed + 1
    /\ UNCHANGED <<ai, tagged, extracted, tpc>>
    /\ UNCHANGED <<schemaVars, markupVars, erdVars, storeVars>>

\* a call of extractEntities(text): the answer of the AI path when it is
\* configured and succeeds, the rule-based extractor when it is not
\* configured or fails; whatever is thrown on the way is thrown on
extractEntities(how, tagging, answer) ==
    /\ tpc = "text"
    /\ ai' = how
    /\ tagged' = tagging
    /\ extracted' = CASE how = "answers" -> Returned("ai", answer, <<>>)
                      [] how = "fails" -> OnAIFailure(text, tagging)
                      [] OTHER -> processWithBasicNLP(text, tagging)
    /\ tpc' = "done"
    /\ UNCHANGED <<text, typed>>
    /\ UNCHANGED <<schemaVars, markupVars, erdVars, storeVars>>

InitText ==
    /\ SchemaIdle
    /\ MarkupIdle
    /\ ErdIdle
    /\ StoreIdle
    /\ text \in {TextOf(<<>>), NotText}
    /\ typed = 0
    /\ ai = "unavailable"
    /\ tagged = [outcome |-> "unusable", nouns |-> {}]
    /\ extracted = [outcome |-> "none"]
    /\ tpc = "text"

NextText ==
    \/ \E w \in Words : TypeWord(w)
    \/ \E how \in {"unavailable", "fails", "answers"}, tagging \in Taggings(text),
          answer \in AiEntityLists :
          extractEntities(how, tagging, answer)

SpecText == InitText /\ [][NextText]_vars

\* the caller ends the sentence typed so far with a full stop
EndSentence ==
    /\ tpc = "text"
    /\ text.isString
    /\ text.chars # <<>>
    /\ text.chars[Len(text.chars)] # "."
    /\ text' = TextOf(text.chars \o <<".">>)
    /\ UNCHANGED <<typed, ai, tagged, extracted, tpc>>
    /\ UNCHANGED <<schemaVars, markupVars, erdVars, storeVars>>

\* texts of several sentences, on which the tagger throws or returns
\* nothing usable: every call ends in fallbackEntityExtraction
NextFallback ==
    \/ \E w \in Words : TypeWord(w)
    \/ EndSentence
    \/ \E how \in {"unavailable", "fails"}, o \in {"unusable", "throws"} :
          extractEntities(how, [outcome |-> o, nouns |-> {}], <<>>)

SpecFallback == InitText /\ [][NextFallback]_vars

----------------------------------------------------------------------------
(* schema.controller.js: the relationships processWithBasicNLP finds in a  *)
(* sentence.  The sentence is a row of words with one blank between them,  *)
(* and a pattern is the set of the word rows its alternatives spell out:   *)
(* a row of capture groups (\w+)s? and of literal words.                   *)

\* a capture group (\w+) or (\w+)s? of a pattern
G == [group |-> TRUE, words |-> {}]

\* a literal word of a pattern, or an alternation of literal words
Lit(ws) == [group |-> FALSE, words |-> ws]

\* relationshipPatterns, in the order of the list
relationshipPatterns ==
    << {<<G, Lit({<<"b","e","l","o","n","g">>}), Lit({<<"t","o">>}), G>>},
       {<<G, Lit({<<"h","a","v","e">>}), G>>},
       {<<G, Lit({<<"c","o","n","t","a","i","n">>, <<"c","o","n","t","a","i","n","s">>}), G>>},
       {<<Lit({<<"e","a","c","h">>}), G, Lit({<<"h","a","s">>}), G>>},
       {<<G, Lit({<<"a","r","e">>, <<"i","s">>}), Lit({<<"l","i","n","k","e","d">>}), Lit({<<"t","o">>}), G>>},
       {<<G, Lit({<<"c","a","n">>}), Lit({<<"h","a","v","e">>, <<"p","l","a","c","e">>}), G>>},
       {<<G, Lit({<<"r","e","f","e","r","e","n","c","e","s">>}), G>>,
        <<G, Lit({<<"r","e","f","e","r","s">>}), Lit({<<"t","o">>}), G>>},
       {<<G, Lit({<<"a","s","s","o","c","i","a","t","e","d">>}), Lit({<<"w","i","t","h">>}), G>>,
        <<G, Lit({<<"c","o","n","n","e","c","t","e","d">>}), Lit({<<"t","o">>}), G>>},
       {<<Lit({<<"r","e","l","a","t","i","o","n","s","h","i","p">>}), Lit({<<"b","e","t","w","e","e","n">>}), G, Lit({<<"a","n","d">>}), G>>},
       {<<G, Lit({<<"j","o","i","n">>, <<"l","i","n","k","s">>}), G, Lit({<<"a","n","d">>, <<"w","i","t","h">>}), G>>},
       {<<G, Lit({<<"d","e","p","e","n","d","s">>}), Lit({<<"o","n">>}), G>>,
        <<G, Lit({<<"r","e","q","u","i","r","e","s">>, <<"n","e","e","d","s">>}), G>>},
       {<<G, Lit({<<"c","o","m","p","o","s","e","d">>}), Lit({<<"o","f">>}), G>>,
        <<G, Lit({<<"m","a","d","e">>}), Lit({<<"u","p">>}), Lit({<<"o","f">>}), G>>,
        <<G, Lit({<<"c","o","n","s","i","s","t","s">>}), Lit({<<"o","f">>}), G>>},
       {<<G, Lit({<<"c","r","e","a","t","e","s">>, <<"g","e","n","e","r","a","t","e","s">>, <<"p","r","o","d","u","c","e","s">>}), G>>} >>

\* weakEntityPatterns, in the order of the list
weakEntityPatterns ==
    << {<<G, Lit({<<"d","e","p","e","n","d","s">>, <<"d","e","p","e","n","d","e","n","t">>}), Lit({<<"o","n">>}), G>>},
       {<<G, Lit({<<"i","s">>}), Lit({<<"p","a","r","t">>}), Lit({<<"o","f">>}), G>>,
        <<G, Lit({<<"b","e","l","o","n","g","s">>}), Lit({<<"t","o">>}), G>>},
       {<<G, Lit({<<"c","a","n","n","o","t">>}), Lit({<<"e","x","i","s","t">>}), Lit({<<"w","i","t","h","o","u","t">>}), G>>,
        <<G, Lit({<<"r","e","q","u","i","r","e","s">>}), G>>},
       {<<Lit({<<"w","e","a","k">>}), Lit({<<"e","n","t","i","t","y">>}), G, Lit({<<"o","f">>, <<"f","o","r">>}), G>>} >>

\* cardinalityPatterns, in the order of the list
cardinalityPatterns ==
    << [regex |-> {<<G, Lit({<<"h","a","v","e">>}), Lit({<<"m","a","n","y">>, <<"m","u","l","t","i","p","l","e">>, <<"s","e","v","e","r","a","l">>}), G>>},
        type |-> "ONE_TO_MANY"],
       [regex |-> {<<Lit({<<"e","a","c","h">>}), G, Lit({<<"h","a","s">>}), Lit({<<"e","x","a","c","t","l","y">>}), Lit({<<"o","n","e">>}), G>>,
        <<Lit({<<"e","a","c","h">>}), G, Lit({<<"h","a","s">>}), Lit({<<"o","n","e">>}), G>>},
        type |-> "ONE_TO_ONE"],
       [regex |-> {<<G, Lit({<<"b","e","l","o","n","g">>, <<"b","e","l","o","n","g","s">>}), Lit({<<"t","o">>}), Lit({<<"e","x","a","c","t","l","y">>}), Lit({<<"o","n","e">>}), G>>,
        <<G, Lit({<<"b","e","l","o","n","g">>, <<"b","e","l","o","n","g","s">>}), Lit({<<"t","o">>}), Lit({<<"o","n","e">>}), G>>},
        type |-> "MANY_TO_ONE"],
       [regex |-> {<<Lit({<<"m","a","n","y">>, <<"m","u","l","t","i","p","l","e">>}), G, Lit({<<"t","o">>}), Lit({<<"m","a","n","y">>, <<"m","u","l","t","i","p","l","e">>}), G>>},
        type |-> "MANY_TO_MANY"],
       [regex |-> {<<Lit({<<"o","n","e","-","t","o","-","m","a","n","y">>}), Lit({<<"b","e","t","w","e","e","n">>, <<"f","r","o","m">>}), G, Lit({<<"t","o">>, <<"a","n","d">>}), G>>},
        type |-> "ONE_TO_MANY"],
       [regex |-> {<<Lit({<<"o","n","e","-","t","o","-","o","n","e">>}), Lit({<<"b","e","t","w","e","e","n">>, <<"f","r","o","m">>}), G, Lit({<<"t","o">>, <<"a","n","d">>}), G>>},
        type |-> "ONE_TO_ONE"],
       [regex |-> {<<Lit({<<"m","a","n","y","-","t","o","-","o","n","e">>}), Lit({<<"b","e","t","w","e","e","n">>, <<"f","r","o","m">>}), G, Lit({<<"t","o">>, <<"a","n","d">>}), G>>},
        type |-> "MANY_TO_ONE"],
       [regex |-> {<<Lit({<<"m","a","n","y","-","t","o","-","m","a","n","y">>}), Lit({<<"b","e","t","w","e","e","n">>, <<"f","r","o","m">>}), G, Lit({<<"t","o">>, <<"a","n","d">>}), G>>},
        type |-> "MANY_TO_MANY"],
       [regex |-> {<<G, Lit({<<"c","a","n">>}), Lit({<<"h","a","v","e">>}), Lit({<<"m","a","n","y">>, <<"m","u","l","t","i","p","l","e">>, <<"s","e","v","e","r","a","l">>}), G>>},
        type |-> "ONE_TO_MANY"],
       [regex |-> {<<Lit({<<"e","v","e","r","y">>}), G, Lit({<<"m","u","s","t">>}), Lit({<<"h","a","v","e">>}), Lit({<<"o","n","e">>}), G>>,
        <<Lit({<<"e","v","e","r","y">>}), G, Lit({<<"h","a","s">>}), Lit({<<"t","o">>}), Lit({<<"h","a","v","e">>}), Lit({<<"o","n","e">>}), G>>},
        type |-> "MANY_TO_ONE"],
       [regex |-> {<<Lit({<<"1",":","m">>}), Lit({<<"b","e","t","w","e","e","n">>, <<"f","r","o","m">>}), G, Lit({<<"t","o">>, <<"a","n","d">>}), G>>},
        type |-> "ONE_TO_MANY"],
       [regex |-> {<<Lit({<<"1",":","1">>}), Lit({<<"b","e","t","w","e","e","n">>, <<"f","r","o","m">>}), G, Lit({<<"t","o">>, <<"a","n","d">>}), G>>},
        type |-> "ONE_TO_ONE"],
       [regex |-> {<<Lit({<<"m",":","1">>}), Lit({<<"b","e","t","w","e","e","n">>, <<"f","r","o","m">>}), G, Lit({<<"t","o">>, <<"a","n","d">>}), G>>},
        type |-> "MANY_TO_ONE"],
       [regex |-> {<<Lit({<<"m",":","n">>}), Lit({<<"b","e","t","w","e","e","n">>, <<"f","r","o","m">>}), G, Lit({<<"t","o">>, <<"a","n","d">>}), G>>},
        type |-> "MANY_TO_MANY"] >>

\* clauses a caller types
RelationshipBetween == <<"r","e","l","a","t","i","o","n","s","h","i","p"," ","b","e","t","w","e","e","n"," ","c","u","s","t","o","m","e","r"," ","a","n","d"," ","o","r","d","e","r">>
CustomersHave == <<"c","u","s","t","o","m","e","r","s"," ","h","a","v","e"," ","o","r","d","e","r","s">>
OneToOneBetween == <<"o","n","e","-","t","o","-","o","n","e"," ","b","e","t","w","e","e","n"," ","c","u","s","t","o","m","e","r"," ","a","n","d"," ","o","r","d","e","r">>
ManyToOneBetween == <<"m","a","n","y","-","t","o","-","o","n","e"," ","b","e","t","w","e","e","n"," ","c","u","s","t","o","m","e","r"," ","a","n","d"," ","o","r","d","e","r">>
ItBelongsTo == <<"i","t"," ","b","e","l","o","n","g","s"," ","t","o"," ","t","h","e","m">>
ItHasOne == <<"i","t"," ","h","a","s"," ","o","n","e">>
CustomerBelongsTo == <<"c","u","s","t","o","m","e","r"," ","b","e","l","o","n","g","s"," ","t","o"," ","o","r","d","e","r">>

Clauses ==
    {RelationshipBetween, CustomersHave, OneToOneBetween, ManyToOneBetween, ItBelongsTo, ItHasOne, CustomerBelongsTo}

\* the longest run of \w characters at the end of a word
WordSuffix(tok) ==
    SubSeq(tok,
           CHOOSE i \in 1..(Len(tok) + 1) :
               /\ \A k \in i..Len(tok) : IsWord(tok[k])
               /\ i = 1 \/ ~IsWord(tok[i - 1]),
           Len(tok))

\* the longest run of \w characters at the start of a word
WordPrefix(tok) ==
    SubSeq(tok, 1,
           CHOOSE i \in 0..Len(tok) :
               /\ \A k \in 1..i : IsWord(tok[k])
               /\ i = Len(tok) \/ ~IsWord(tok[i + 1]))

\* what the k-th element of a template takes of the word it meets: a
\* pattern is not anchored, so its first element may start inside the word
\* and its last group may end inside the word
GroupValue(tpl, k, tok) ==
    IF k = 1 THEN WordSuffix(tok)
    ELSE IF k = Len(tpl) THEN WordPrefix(tok)
    ELSE tok

ElementMatches(tpl, k, tok) ==
    IF tpl[k].group
    THEN /\ GroupValue(tpl, k, tok) # <<>>
         /\ (k # 1 /\ k # Len(tpl)) => \A i \in 1..Len(tok) : IsWord(tok[i])
    ELSE IF k = 1 THEN \E w \in tpl[k].words : EndsWith(tok, w)
    ELSE tok \in tpl[k].words

\* the template matches the words from the p-th on
TemplateMatchesAt(tpl, toks, p) ==
    /\ p + Len(tpl) - 1 <= Len(toks)
    /\ \A k \in 1..Len(tpl) : ElementMatches(tpl, k, toks[p + k - 1])

\* the words at which a match of the pattern starts
PatternStarts(pattern, toks) ==
    {p \in 1..Len(toks) : \E tpl \in pattern : TemplateMatchesAt(tpl, toks, p)}

TemplateAt(pattern, toks, p) ==
    CHOOSE tpl \in pattern : TemplateMatchesAt(tpl, toks, p)

\* the capture groups of the match of a template at the p-th word
GroupsOf(tpl, toks, p, at) ==
    [i \in 1..Len(at) |-> GroupValue(tpl, at[i], toks[p + at[i] - 1])]

GroupsAt(pattern, toks, p) ==
    GroupsOf(TemplateAt(pattern, toks, p), toks, p,
             SelectSeq([k \in 1..Len(TemplateAt(pattern, toks, p)) |-> k],
                       LAMBDA k : TemplateAt(pattern, toks, p)[k].group))

\* while ((match = pattern.exec(lowerSentence)) !== null): the capture
\* groups of the matches from the word `from` on, each search starting
\* where the match before ended
RECURSIVE PatternMatchesFrom(_, _, _)
PatternMatchesFrom(pattern, toks, from) ==
    IF \A p \in PatternStarts(pattern, toks) : p < from THEN <<>>
    ELSE <<GroupsAt(pattern, toks, Least({p \in PatternStarts(pattern, toks) : p >= from}))>>
         \o PatternMatchesFrom(pattern, toks,
                Least({p \in PatternStarts(pattern, toks) : p >= from})
                + Len(TemplateAt(pattern, toks,
                                 Least({p \in PatternStarts(pattern, toks) : p >= from}))))

\* patterns.forEach: the matches of the first n patterns, pattern by pattern
RECURSIVE MatchesOfFirst(_, _, _)
MatchesOfFirst(patterns, toks, n) ==
    IF n = 0 THEN <<>>
    ELSE MatchesOfFirst(patterns, toks, n - 1) \o PatternMatchesFrom(patterns[n], toks, 1)

\* entities.find(e => e.name.toLowerCase() === name || e.name.toLowerCase()
\* === (name.endsWith('s') ? name.slice(0, -1) : name + 's')): the index of
\* the entity found, 0 when there is none
FindEntity(ents, n) ==
    IF \E i \in 1..Len(ents) :
           ToLowerCase(ents[i].name) \in {n, IF EndsWith(n, <<"s">>)
                                             THEN SubSeq(n, 1, Len(n) - 1)
                                             ELSE n \o <<"s">>}
    THEN Least({i \in 1..Len(ents) :
                   ToLowerCase(ents[i].name) \in {n, IF EndsWith(n, <<"s">>)
                                                     THEN SubSeq(n, 1, Len(n) - 1)
                                                     ELSE n \o <<"s">>}})
    ELSE 0

\* cardMatch: the first match of the cardinality pattern names the two
\* words, in either order
CardinalityApplies(cardPattern, toks, sourceName, targetName) ==
    /\ PatternStarts(cardPattern.regex, toks) # {}
    /\ \/ /\ Includes(GroupsAt(cardPattern.regex, toks, Least(PatternStarts(cardPattern.regex, toks)))[1], sourceName)
          /\ Includes(GroupsAt(cardPattern.regex, toks, Least(PatternStarts(cardPattern.regex, toks)))[2], targetName)
       \/ /\ Includes(GroupsAt(cardPattern.regex, toks, Least(PatternStarts(cardPattern.regex, toks)))[1], targetName)
          /\ Includes(GroupsAt(cardPattern.regex, toks, Least(PatternStarts(cardPattern.regex, toks)))[2], sourceName)

\* cardinalityPatterns.forEach over the first n patterns: the default, or
\* the type of the last pattern that applies
RECURSIVE CardinalityType(_, _, _, _)
CardinalityType(toks, sourceName, targetName, n) ==
    IF n = 0 THEN "ONE_TO_MANY"
    ELSE IF CardinalityApplies(cardinalityPatterns[n], toks, sourceName, targetName)
    THEN cardinalityPatterns[n].type
    ELSE CardinalityType(toks, sourceName, targetName, n - 1)

\* the checks for keywords that follow: each sets relationType, whatever
\* the cardinality patterns have set
KeywordType(lowerSentence, relationType) ==
    IF Includes(lowerSentence, <<"m","u","l","t","i","p","l","e">>) /\ Includes(lowerSentence, <<"m","a","n","y">>)
    THEN "MANY_TO_MANY"
    ELSE IF Includes(lowerSentence, <<"b","e","l","o","n","g","s"," ","t","o">>) \/ Includes(lowerSentence, <<"o","w","n","e","d"," ","b","y">>)
    THEN "MANY_TO_ONE"
    ELSE IF \/ Includes(lowerSentence, <<"h","a","s"," ","o","n","e">>)
            \/ Includes(lowerSentence, <<"h","a","s"," ","a"," ","s","i","n","g","l","e">>)
            \/ Includes(lowerSentence, <<"e","x","a","c","t","l","y"," ","o","n","e">>)
    THEN "ONE_TO_ONE"
    ELSE IF \/ Includes(lowerSentence, <<"h","a","s"," ","m","a","n","y">>)
            \/ Includes(lowerSentence, <<"h","a","v","e"," ","m","u","l","t","i","p","l","e">>)
            \/ Includes(lowerSentence, <<"c","a","n"," ","h","a","v","e"," ","s","e","v","e","r","a","l">>)
    THEN "ONE_TO_MANY"
    ELSE relationType

\* relationType of a match of a relationship pattern
RelationType(lowerSentence, toks, sourceName, targetName) ==
    KeywordType(lowerSentence,
                CardinalityType(toks, sourceName, targetName, Len(cardinalityPatterns)))

\* what the loop has built: the entities, the values of relationshipMap in
\* the order they were set, and its keys
Built(ents, rels, keys) == [entities |-> ents, relationships |-> rels, keys |-> keys]

\* relationshipMap.set(key, relationship) unless the key is taken; ents
\* is what the entities become when it is set
SetUnlessTaken(st, key, relationship, ents) ==
    IF key \in st.keys THEN st
    ELSE Built(ents, Append(st.relationships, relationship), st.keys \cup {key})

\* the weak entity with the key attribute that references the strong one
WithWeakKey(ents, w, s) ==
    IF \E j \in 1..Len(ents[w].attributes) :
           ents[w].attributes[j].name = WeakKeyAttribute(ents[s].name).name
    THEN ents
    ELSE [ents EXCEPT ![w].attributes = Append(@, WeakKeyAttribute(ents[s].name))]

\* a match of a weak-entity pattern whose words name the entities w and s
WeakEntityFound(st, w, s) ==
    IF w = 0 \/ s = 0 THEN st
    ELSE SetUnlessTaken(st,
             st.entities[w].name \o <<"-">> \o st.entities[s].name \o <<"-","w","e","a","k">>,
             Relationship(st.entities[w].name, st.entities[s].name, "IDENTIFYING_RELATIONSHIP"),
             WithWeakKey(st.entities,
                         Least({i \in 1..Len(st.entities) :
                                   st.entities[i].name = st.entities[IF w = 0 THEN 1 ELSE w].name}),
                         IF s = 0 THEN 1 ELSE s))

\* the entities with the junction entity of a MANY_TO_MANY relationship
WithJunction(ents, s, t, ty) ==
    IF ty = "MANY_TO_MANY"
       /\ \A i \in 1..Len(ents) : ents[i].name # ents[s].name \o <<"_">> \o ents[t].name
    THEN Append(ents, JunctionEntity(ents[s].name, ents[t].name))
    ELSE ents

\* a match of a relationship pattern whose words name the entities s and t
RelationshipFound(st, s, t, ty) ==
    IF s = 0 \/ t = 0 THEN st
    ELSE IF st.entities[s].name = st.entities[t].name THEN st
    ELSE SetUnlessTaken(st,
             st.entities[s].name \o <<"-">> \o st.entities[t].name,
             Relationship(st.entities[s].name, st.entities[t].name, ty),
             WithJunction(st.entities, IF s = 0 THEN 1 ELSE s, IF t = 0 THEN 1 ELSE t, ty))

WeakEntityFoundNext(st, groups) ==
    WeakEntityFound(st, FindEntity(st.entities, groups[1]), FindEntity(st.entities, groups[2]))

\* weakEntityPatterns.forEach, over the first n matches
RECURSIVE WeakEntitiesFound(_, _, _)
WeakEntitiesFound(st, matches, n) ==
    IF n = 0 THEN st
    ELSE WeakEntityFoundNext(WeakEntitiesFound(st, matches, n - 1), matches[n])

RelationshipFoundNext(st, groups, lowerSentence, toks) ==
    RelationshipFound(st, FindEntity(st.entities, groups[1]),
                      FindEntity(st.entities, groups[2]),
                      RelationType(lowerSentence, toks, groups[1], groups[2]))

\* relationshipPatterns.forEach, over the first n matches
RECURSIVE RelationshipsFound(_, _, _, _, _)
RelationshipsFound(st, matches, n, lowerSentence, toks) ==
    IF n = 0 THEN st
    ELSE RelationshipFoundNext(RelationshipsFound(st, matches, n - 1, lowerSentence, toks),
                               matches[n], lowerSentence, toks)

CoOccurrenceFoundNext(st, entry) ==
    SetUnlessTaken(st, entry.key, entry.value, st.entities)

\* the co-occurrence loops over the entities the sentence mentions, over
\* the first n pairs
RECURSIVE CoOccurrencesFound(_, _, _)
CoOccurrencesFound(st, entries, n) ==
    IF n = 0 THEN st
    ELSE CoOccurrenceFoundNext(CoOccurrencesFound(st, entries, n - 1), entries[n])

MentionedCoOccurrences(st, lowerSentence) ==
    CoOccurrencesFound(st,
        CoOccurrencesFrom(lowerSentence,
            SelectSeq(st.entities, LAMBDA e : Includes(lowerSentence, ToLowerCase(e.name))),
            1, 2),
        Len(CoOccurrencesFrom(lowerSentence,
            SelectSeq(st.entities, LAMBDA e : Includes(lowerSentence, ToLowerCase(e.name))),
            1, 2)))

\* the body of sentences.forEach for one sentence: the weak-entity
\* patterns, the relationship patterns, the co-occurrence loops
SentenceFound(st, lowerSentence, toks) ==
    MentionedCoOccurrences(
        RelationshipsFound(
            WeakEntitiesFound(st, MatchesOfFirst(weakEntityPatterns, toks, Len(weakEntityPatterns)),
                              Len(MatchesOfFirst(weakEntityPatterns, toks, Len(weakEntityPatterns)))),
            MatchesOfFirst(relationshipPatterns, toks, Len(relationshipPatterns)),
            Len(MatchesOfFirst(relationshipPatterns, toks, Len(relationshipPatterns))),
            lowerSentence, toks),
        lowerSentence)

MaxClauses == 3

\* the caller's sentence grows by one clause
TypeClause(c) ==
    /\ tpc = "text"
    /\ typed < MaxClauses
    /\ text' = TextOf(IF text.chars = <<>> THEN c ELSE text.chars \o <<" ">> \o c)
    /\ typed' = typed + 1
    /\ UNCHANGED <<ai, tagged, extracted, tpc>>
    /\ UNCHANGED <<schemaVars, markupVars, erdVars, storeVars>>

\* processWithBasicNLP from `const relationshipMap = new Map()` on, for a
\* text of one sentence and the entities made of its nouns
readSentence(r) ==
    /\ tpc = "text"
    /\ pc[r] = "extract" /\ path[r] = "nlp"
    /\ entities' = [entities EXCEPT ![r] =
          SentenceFound(Built(entities[r], <<>>, {}), ToLowerCase(text.chars),
                        Tokenize(ToLowerCase(text.chars))).entities]
    /\ relationships' = [relationships EXCEPT ![r] =
          SentenceFound(Built(entities[r], <<>>, {}), ToLowerCase(text.chars),
                        Tokenize(ToLowerCase(text.chars))).relationships]
    /\ relationshipMap' = [relationshipMap EXCEPT ![r] =
          SentenceFound(Built(entities[r], <<>>, {}), ToLowerCase(text.chars),
                        Tokenize(ToLowerCase(text.chars))).keys]
    /\ tpc' = "done"
    /\ UNCHANGED <<path, pc, schema>>
    /\ UNCHANGED <<text, typed, ai, tagged, extracted>>
    /\ UNCHANGED <<markupVars, erdVars, storeVars>>

\* the entities made of the nouns customer and order
SentenceEntityLists ==
    { << NlpEntity(Customer), NlpEntity(Order) >>,
      << NlpEntity(Order), NlpEntity(Customer) >> }

InitSentence ==
    /\ MarkupIdle
    /\ ErdIdle
    /\ StoreIdle
    /\ path = [r \in Runs |-> IF r = 1 THEN "nlp" ELSE "none"]
    /\ entities \in {e \in [Runs -> SentenceEntityLists \cup {<<>>}] :
                        e[1] # <<>> /\ e[2] = <<>>}
    /\ relationships = [r \in Runs |-> <<>>]
    /\ relationshipMap = [r \in Runs |-> {}]
    /\ pc = [r \in Runs |-> IF r = 1 THEN "extract" ELSE "idle"]
    /\ schema = [r \in Runs |-> NoSchema]
    /\ text = TextOf(<<>>)
    /\ typed = 0
    /\ ai = "unavailable"
    /\ tagged = [outcome |-> "unusable", nouns |-> {}]
    /\ extracted = [outcome |-> "none"]
    /\ tpc = "text"

NextSentence ==
    \/ \E c \in Clauses : TypeClause(c)
    \/ readSentence(1)

SpecSentence == InitSentence /\ [][NextSentence]_vars

----------------------------------------------------------------------------
(* schema.controller.js: updateSchema; query.controller.js: createSession  *)
(* and saveSession, over the stored Schema and Session records             *)

\* a stored Schema record, as far as the handlers read and write it
SchemaRecord(n, v) == [name |-> n, version |-> v]

SchemaNames == {"shop", "school"}

\* the versions a schema is stored at before the requests arrive
StoredVersions == {1, 2}

\* the versions a request body carries
BodyVersions == {1, 9}

MaxUpdates == 3

\* Schema.findById(id): the record, if one is stored under the id
Stored(id) == id \in 1..Len(schemaStore)

\* updates.version = schema.version + 1
Incremented(updates, found) == [updates EXCEPT !.version = found.version + 1]

\* the updateSchema calls answered 200 so far, for the first n schemas
RECURSIVE UpdatesOfFirst(_)
UpdatesOfFirst(n) == IF n = 0 THEN 0 ELSE UpdatesOfFirst(n - 1) + ledger[n].updates

\* the updateSchema calls answered so far
Answered == UpdatesOfFirst(Len(ledger)) + ledger[1].missed

\* updateSchema up to its second await: Schema.findById(id), 404 when
\* nothing is found, the version of the record read into updates
updateSchemaFind(q, id, body) ==
    /\ schemaStore # <<>>
    /\ requests[q].pc = "idle"
    /\ Answered + Cardinality({o \in Requests : requests[o].pc = "found"}) < MaxUpdates
    /\ IF Stored(id)
       THEN /\ requests' = [requests EXCEPT ![q] =
                               [pc |-> "found", id |-> id,
                                updates |-> Incremented(body, schemaStore[id])]]
            /\ UNCHANGED <<ledger, response>>
       ELSE /\ response' = [handler |-> "updateSchema", status |-> 404,
                            id |-> id, schemaId |-> 0]
            /\ ledger' = [ledger EXCEPT ![1].missed = @ + 1]
            /\ UNCHANGED requests
    /\ UNCHANGED <<schemaStore, sessionStore>>
    /\ UNCHANGED <<schemaVars, markupVars, erdVars, textVars>>

\* updateSchema from its second await on: Schema.findByIdAndUpdate(id,
\* updates) sets the fields of updates in the stored record; 200
updateSchemaWrite(q) ==
    /\ requests[q].pc = "found"
    /\ schemaStore' = [schemaStore EXCEPT ![requests[q].id] =
                           SchemaRecord(requests[q].updates.name,
                                        requests[q].updates.version)]
    /\ ledger' = [ledger EXCEPT ![requests[q].id].updates = @ + 1]
    /\ response' = [handler |-> "updateSchema", status |-> 200,
                    id |-> requests[q].id, schemaId |-> 0]
    /\ requests' = [requests EXCEPT ![q] = NoRequest]
    /\ UNCHANGED sessionStore
    /\ UNCHANGED <<schemaVars, markupVars, erdVars, textVars>>

\* the ledger of a schema stored at version v
Opened(v) == [base |-> v, updates |-> 0, missed |-> 0]

\* one or two schemas are stored, and no request has arrived
InitUpdate ==
    /\ SchemaIdle
    /\ MarkupIdle
    /\ ErdIdle
    /\ TextIdle
    /\ \E n \in SchemaNames, v \in StoredVersions :
          schemaStore \in {<<SchemaRecord(n, v)>>,
                           <<SchemaRecord(n, v), SchemaRecord(n, 1)>>}
    /\ ledger = [i \in 1..Len(schemaStore) |-> Opened(schemaStore[i].version)]
    /\ sessionStore = <<>>
    /\ requests = [q \in Requests |-> NoRequest]
    /\ response = NoResponse

\* the requests are handled concurrently: between the two awaits of one
\* call the steps of another call may run
NextUpdate ==
    \/ \E q \in Requests, id \in 1..(Len(schemaStore) + 1),
          n \in SchemaNames, v \in BodyVersions :
          updateSchemaFind(q, id, SchemaRecord(n, v))
    \/ \E q \in Requests : updateSchemaWrite(q)

SpecUpdate == InitUpdate /\ [][NextUpdate]_vars

\* a stored Session record, as far as the handlers read and write it;
\* activeSchemaId 0 stands for a field that was never set
SessionRecord(ids, active, entries) ==
    [schemas |-> ids, activeSchemaId |-> active, history |-> entries]

HistoryEntry(v, id) == [version |-> v, schemaId |-> id]

MaxSessions == 2
MaxStored == 3

\* createSession: the session holds the schema of the body when the body
\* names one and it is stored, and no schema otherwise; 201.  A schemaId of
\* 0 stands for a body without schemaId.
createSession(schemaId) ==
    /\ Len(sessionStore) < MaxSessions
    /\ sessionStore' =
          Append(sessionStore,
                 IF schemaId # 0 /\ Stored(schemaId)
                 THEN SessionRecord(<<schemaId>>, schemaId, <<HistoryEntry(1, schemaId)>>)
                 ELSE SessionRecord(<<>>, 0, <<>>))
    /\ response' = [handler |-> "createSession", status |-> 201,
                    id |-> Len(sessionStore) + 1, schemaId |-> schemaId]
    /\ UNCHANGED <<schemaStore, requests, ledger>>
    /\ UNCHANGED <<schemaVars, markupVars, erdVars, textVars>>

\* new Schema({...schema.toObject(), _id: undefined, version: schema.version + 1})
NewVersionKept(found) == found

NewVersion(found) == [found EXCEPT !.version = @ + 1]

\* saveSession: 404 when the session or the schema is not stored; else a
\* new Schema record is saved and pushed to the session; 200
saveSession(id, schemaId) ==
    /\ schemaStore # <<>>
    /\ response' = [handler |-> "saveSession",
                    status |-> IF id \in 1..Len(sessionStore) /\ Stored(schemaId)
                               THEN 200 ELSE 404,
                    id |-> id, schemaId |-> schemaId]
    /\ IF id \in 1..Len(sessionStore) /\ Stored(schemaId)
       THEN /\ Len(schemaStore) < MaxStored
            /\ schemaStore' = Append(schemaStore, NewVersion(schemaStore[schemaId]))
            /\ ledger' = Append(ledger, Opened(NewVersion(schemaStore[schemaId]).version))
            /\ sessionStore' =
                  [sessionStore EXCEPT ![id] =
                      SessionRecord(
                          Append(@.schemas, Len(schemaStore) + 1),
                          Len(schemaStore) + 1,
                          Append(@.history,
                                 HistoryEntry(NewVersion(schemaStore[schemaId]).version,
                                              Len(schemaStore) + 1)))]
       ELSE UNCHANGED <<schemaStore, sessionStore, ledger>>
    /\ UNCHANGED requests
    /\ UNCHANGED <<schemaVars, markupVars, erdVars, textVars>>

\* the calls are handled one after another
NextSession ==
    \/ \E schemaId \in 0..(Len(schemaStore) + 1) : createSession(schemaId)
    \/ \E id \in 1..(Len(sessionStore) + 1), schemaId \in 1..(Len(schemaStore) + 1) :
          saveSession(id, schemaId)

\* one schema is stored, and no session
InitSession ==
    /\ SchemaIdle
    /\ MarkupIdle
    /\ ErdIdle
    /\ TextIdle
    /\ \E n \in SchemaNames, v \in StoredVersions : schemaStore = <<SchemaRecord(n, v)>>
    /\ ledger = [i \in 1..Len(schemaStore) |-> Opened(schemaStore[i].version)]
    /\ sessionStore = <<>>
    /\ requests = [q \in Requests |-> NoRequest]
    /\ response = NoResponse

SpecSession == InitSession /\ [][NextSession]_vars

----------------------------------------------------------------------------
(* Properties of generateSchema *)

Done(r) == pc[r] = "done"

TableNames(sch) == {sch.tables[i].name : i \in 1..Len(sch.tables)}
TablesNamed(sch, n) == {i \in 1..Len(sch.tables) : sch.tables[i].name = n}
ColumnsOf(t) == {t.columns[i] : i \in 1..Len(t.columns)}
ColumnsNamed(t, n) == {i \in 1..Len(t.columns) : t.columns[i].name = n}

\* the entity name maps to a table of the schema built from these entities
MapsToTable(ents, n) ==
    \E i \in 1..Len(ents) :
        ToLowerCase(transformTableName(ents[i].name)) = ToLowerCase(transformTableName(n))

Dangling(ents, rel) ==
    ~MapsToTable(ents, rel.sourceEntity) \/ ~MapsToTable(ents, rel.targetEntity)

\* C2: every column with isForeignKey = true has a references.table that is
\* the name of a table of the same schema.
C2_ReferentialIntegrity ==
    \A r \in Runs : Done(r) =>
        \A i \in 1..Len(schema[r].tables) :
            \A c \in ColumnsOf(schema[r].tables[i]) :
                c.isForeignKey => c.references.table \in TableNames(schema[r])

\* t is the junction table of a and b: named a_b, exactly two foreign-key
\* columns, one per side, both primary key, non-nullable and cascading, and
\* a created_at timestamp
IsJunctionOf(t, a, b) ==
    LET fks == {i \in 1..Len(t.columns) : t.columns[i].isForeignKey}
    IN /\ t.name = a \o <<"_">> \o b
       /\ Cardinality(fks) = 2
       /\ \E i, j \in fks :
             /\ i # j
             /\ t.columns[i].references.table = a
             /\ t.columns[j].references.table = b
       /\ \A i \in fks :
             /\ t.columns[i].isPrimaryKey
             /\ ~t.columns[i].isNullable
             /\ t.columns[i].references.onDelete = CASCADE
             /\ t.columns[i].references.onUpdate = CASCADE
       /\ \E i \in 1..Len(t.columns) :
             /\ t.columns[i].name = CreatedAt
             /\ t.columns[i].dataType = TIMESTAMP

DerivedRelationship(sch, from, junction) ==
    \E k \in 1..Len(sch.relationships) :
        /\ sch.relationships[k].type = "ONE_TO_MANY"
        /\ sch.relationships[k].sourceTable = from
        /\ sch.relationships[k].targetTable = junction
        /\ sch.relationships[k].junctionTable = junction

\* C3: for every MANY_TO_MANY relationship between A and B kept in the
\* schema there is a table A_B with exactly two foreign-key columns, one
\* referencing A and one referencing B, both primary key, non-nullable and
\* cascading, plus a created_at timestamp; and the two derived ONE_TO_MANY
\* relationships A -> A_B and B -> A_B are recorded.
C3_JunctionCompleteness ==
    \A r \in Runs : Done(r) =>
        \A k \in 1..Len(schema[r].relationships) :
            LET rel == schema[r].relationships[k]
            IN rel.type = "MANY_TO_MANY" =>
                /\ \E i \in 1..Len(schema[r].tables) :
                      IsJunctionOf(schema[r].tables[i], rel.sourceTable, rel.targetTable)
                /\ DerivedRelationship(schema[r], rel.sourceTable,
                                       rel.sourceTable \o <<"_">> \o rel.targetTable)
                /\ DerivedRelationship(schema[r], rel.targetTable,
                                       rel.sourceTable \o <<"_">> \o rel.targetTable)

\* C3 witness: a schema that kept a MANY_TO_MANY relationship between two
\* different tables
C3_Witness ==
    /\ Done(1)
    /\ \E k \in 1..Len(schema[1].relationships) :
          /\ schema[1].relationships[k].type = "MANY_TO_MANY"
          /\ schema[1].relationships[k].sourceTable # schema[1].relationships[k].targetTable

StudentCourse == <<"s","t","u","d","e","n","t","_","c","o","u","r","s","e">>
StudentT == <<"s","t","u","d","e","n","t">>
CourseT == <<"c","o","u","r","s","e">>
OrderT == <<"o","r","d","e","r">>
CustomerT == <<"c","u","s","t","o","m","e","r">>
StudentId == <<"s","t","u","d","e","n","t","_","i","d">>
CourseId == <<"c","o","u","r","s","e","_","i","d">>
CustomerId == <<"c","u","s","t","o","m","e","r","_","i","d">>

\* the extraction of the Student / Course scenario: the entities Student and
\* Course (and, from the rule-based extractor, the junction entity it adds for
\* the pair) and one MANY_TO_MANY relationship between them
StudentCourseExtraction(r) ==
    /\ relationships[r] = <<Relationship(Student, Course, "MANY_TO_MANY")>>
    /\ EntityNames(r) \ {Student \o <<"_">> \o Course} = {Student, Course}

\* C6: for that extraction the schema has exactly the 3 tables student,
\* course and student_course, and student_course has the primary-key columns
\* student_id and course_id.
C6_StudentCourse ==
    \A r \in Runs : (Done(r) /\ StudentCourseExtraction(r)) =>
        /\ Len(schema[r].tables) = 3
        /\ TableNames(schema[r]) = {StudentT, CourseT, StudentCourse}
        /\ \A i \in TablesNamed(schema[r], StudentCourse) :
              {c.name : c \in {d \in ColumnsOf(schema[r].tables[i]) : d.isPrimaryKey}}
                  = {StudentId, CourseId}

\* C7: a MANY_TO_ONE relationship from Order to Customer gives the order
\* table a customer_id foreign-key column referencing customer.
C7_ManyToOneForeignKey ==
    \A r \in Runs :
        (/\ Done(r)
         /\ \E k \in 1..Len(relationships[r]) :
               relationships[r][k] = Relationship(Order, Customer, "MANY_TO_ONE")
         /\ {Order, Customer} \subseteq EntityNames(r))
        => \E i \in TablesNamed(schema[r], OrderT) :
              \E c \in ColumnsOf(schema[r].tables[i]) :
                  /\ c.name = CustomerId
                  /\ c.isForeignKey
                  /\ c.references.table = CustomerT

\* the index of the table an entity name resolves to
EntityIndex(ents, n) ==
    CHOOSE i \in 1..Len(ents) :
        /\ ToLowerCase(transformTableName(ents[i].name)) = ToLowerCase(transformTableName(n))
        /\ \A j \in 1..(i - 1) :
              ToLowerCase(transformTableName(ents[j].name)) # ToLowerCase(transformTableName(n))

\* the <source>_id names the ONE_TO_MANY relationships of the input ask of entity ti
AskedForeignKeys(ents, rels, ti) ==
    { ToLowerCase(transformTableName(ents[EntityIndex(ents, rels[k].sourceEntity)].name)) \o IdSuffix :
        k \in {m \in 1..Len(rels) :
                  /\ rels[m].type = "ONE_TO_MANY"
                  /\ ~Dangling(ents, rels[m])
                  /\ EntityIndex(ents, rels[m].targetEntity) = ti} }

----------------------------------------------------------------------------
(* Properties of autoFormatMermaidSyntax and validateMermaidSyntax *)

\* C1: autoFormatMermaidSyntax is idempotent: formatting what it returned
\* returns the same text.
C1_Idempotent == mpc = "reformatted" => reformatted = formatted

\* the braces of the markup that are not part of a cardinality glyph
NoCardinalityGlyph(s) == \A p \in 1..Len(s) : ~IsCardinalityAt(s, p)
CountUpTo(s, c, n) == Cardinality({k \in 1..n : s[k] = c})
CountFrom(s, c, n) == Cardinality({k \in n..Len(s) : s[k] = c})
\* a closing brace with no opening brace before it to match
UnmatchedClose(s) == \E n \in 1..Len(s) : CountUpTo(s, "}", n) > CountUpTo(s, "{", n)
\* an opening brace with no closing brace after it to match
UnmatchedOpen(s) == \E n \in 1..Len(s) : CountFrom(s, "{", n) > CountFrom(s, "}", n)

NamesUnmatchedMarker(errors) ==
    \E k \in 1..Len(errors) : errors[k].kind \in {"UnclosedEntity", "UnexpectedClosingBrace"}

\* C4: for markup with an unmatched opening or closing brace,
\* validateMermaidSyntax returns isValid = false and an error that names the
\* unmatched marker.
C4_ValidatorSoundness ==
    (/\ mpc = "validated"
     /\ NoCardinalityGlyph(markup)
     /\ UnmatchedOpen(markup) \/ UnmatchedClose(markup))
    => /\ ~validation.isValid
       /\ NamesUnmatchedMarker(validation.errors)

\* the lines of a text, trimmed, blank lines left out
TrimmedLines(s) ==
    SelectSeq([i \in 1..Len(SplitLines(s)) |-> Trim(SplitLines(s)[i])],
              LAMBDA line : line # <<>>)

CanonicalScenarioLines ==
    << <<"a"," ","{">>,
       <<"n","a","m","e"," ","s","t","r","i","n","g">>,
       <<"}">>,
       <<"b"," ","{">>,
       <<"i","d"," ","i","n","t">>,
       <<"}">> >>

\* C8: autoFormatMermaidSyntax("a{name string}b{id int}") is two blocks on
\* separate lines, each an opener line with a space before the brace, the
\* attribute on a line of its own and a closing brace on a line of its own.
C8_RepairScenario ==
    (mpc = "formatted" /\ markup = ScenarioMarkup)
    => TrimmedLines(formatted) = CanonicalScenarioLines

----------------------------------------------------------------------------
(* Properties of generateMermaidERD *)

\* generateMermaidERD returned for a schema that generateSchema built
SynthesizedReturned == epc = "returned" /\ erdSchema.tables # <<>>

\* the marker of a column: PK for a primary key, FK for a foreign key that
\* is not a primary key
KeyMarker(column) ==
    IF column.isPrimaryKey THEN <<" ","P","K">>
    ELSE IF column.isForeignKey THEN <<" ","F","K">>
    ELSE <<>>

\* '<type> <name> [PK|FK]'
MarkedAttributeLine(column) ==
    mapDataType(column.dataType) \o <<" ">> \o column.name \o KeyMarker(column)

\* the lines from line a on are the block of the table: its opener, one
\* attribute line per column in order, the closing brace
BlockAt(lines, a, table) ==
    /\ a + Len(table.columns) + 1 <= Len(lines)
    /\ lines[a] = BlockName(table.name) \o <<" ","{">>
    /\ \A j \in 1..Len(table.columns) : lines[a + j] = MarkedAttributeLine(table.columns[j])
    /\ lines[a + Len(table.columns) + 1] = <<"}">>

HasBlock(lines, table) == \E a \in 1..Len(lines) : BlockAt(lines, a, table)

\* C17: for every table of a synthesized schema the returned markup has one
\* block, with one attribute line '<type> <name> [PK|FK]' per column, the
\* type one of number, string, date, boolean, the marker PK for a primary-key
\* column and FK for a foreign-key column that is not a primary key.
C17_AttributeLines ==
    SynthesizedReturned
    => \A i \in 1..Len(erdSchema.tables) :
          /\ HasBlock(TrimmedLines(returned), erdSchema.tables[i])
          /\ \A j \in 1..Len(erdSchema.tables[i].columns) :
                mapDataType(erdSchema.tables[i].columns[j].dataType) \in MermaidTypes

\* the lines of the markup that are relationship lines
RelationshipLines(mermaidSyntax) ==
    SelectSeq(TrimmedLines(mermaidSyntax), IsSpacedRelationship)

\* the line names the relationship's tables as their blocks are named
NamesTables(line, rel) ==
    /\ StartsWith(line, BlockName(rel.sourceTable) \o <<" ">>)
    /\ Includes(line, <<" ">> \o BlockName(rel.targetTable) \o <<" ",":">>)

\* C18: the markup returned for a schema of generateSchema has exactly one
\* relationship line per element of schema.relationships, and that line
\* names the source and the target table by the names of their blocks.
C18_RelationshipLines ==
    (SynthesizedReturned /\ pushed = 0)
    => /\ Len(RelationshipLines(returned)) = Len(erdSchema.relationships)
       /\ \A k \in 1..Len(erdSchema.relationships) :
             NamesTables(RelationshipLines(returned)[k], erdSchema.relationships[k])

\* the cardinality a relationship object carries, in the extractor's words;
\* "none" when it has neither a cardinality nor a type
CardinalityOf(rel) ==
    IF Has(rel, "cardinality")
    THEN (IF rel.cardinality.source = "many"
          THEN (IF rel.cardinality.target = "many" THEN "MANY_TO_MANY" ELSE "MANY_TO_ONE")
          ELSE (IF rel.cardinality.target = "many" THEN "ONE_TO_MANY" ELSE "ONE_TO_ONE"))
    ELSE IF ~Has(rel, "type") THEN "none"
    ELSE CASE rel.type \in {"ONE_TO_MANY", "one-to-many"} -> "ONE_TO_MANY"
           [] rel.type \in {"MANY_TO_ONE", "many-to-one"} -> "MANY_TO_ONE"
           [] rel.type \in {"MANY_TO_MANY", "many-to-many"} -> "MANY_TO_MANY"
           [] OTHER -> "ONE_TO_ONE"

\* the operator a relationship line is to carry for a cardinality
GlyphsOf(cardinality) ==
    CASE cardinality = "ONE_TO_MANY" -> <<"|","|"," ","-","-"," ","o","{">>
      [] cardinality = "MANY_TO_ONE" -> <<"}","o"," ","-","-"," ","|","|">>
      [] cardinality = "MANY_TO_MANY" -> <<"}","o"," ","-","-"," ","o","{">>
      [] OTHER -> <<"|","|"," ","-","-"," ","|","|">>

\* the relationship the caller pushed, which is the one that gets a line
PushedRelationship == erdSchema.relationships[Len(erdSchema.relationships)]

\* C19: the glyphs of an emitted relationship line follow the relationship's
\* cardinality: ONE_TO_MANY is '|| -- o{', MANY_TO_ONE '}o -- ||',
\* MANY_TO_MANY '}o -- o{', ONE_TO_ONE '|| -- ||', and '|| -- ||' stands only
\* for ONE_TO_ONE or for a relationship with no cardinality and no type.
C19_CardinalityGlyphs ==
    (epc = "returned" /\ pushed = 1)
    => /\ Len(RelationshipLines(returned)) = 1
       /\ Includes(RelationshipLines(returned)[1],
                   <<" ">> \o GlyphsOf(CardinalityOf(PushedRelationship)) \o <<" ">>)

\* what generateMermaidERD appended to the repaired markup
Annotation == SubSeq(returned, Len(repaired) + 1, Len(returned))

\* line k of the annotation is a '%%' comment that carries the k-th error
IsWarningOf(line, error) ==
    /\ StartsWith(line, <<"%","%">>)
    /\ EndsWith(line, MessageOf(error))

\* C20: validation never blocks emission: for a schema with a tables array
\* generateMermaidERD returns; what it returns starts with the repaired
\* markup, is the repaired markup alone when the validator passes it, and
\* otherwise goes on with a '%% Validation Warnings:' comment line and one
\* '%%' comment line per error; the validator's verdict is the one on the
\* repaired markup.
C20_ValidationNeverBlocks ==
    /\ (epc = "thrown" => InvalidSchemaStructure(erdSchema))
    /\ epc = "returned"
       => /\ StartsWith(repaired, <<"e","r","D","i","a","g","r","a","m">>)
          /\ StartsWith(returned, repaired)
          /\ checked = validateMermaidSyntax(repaired)
          /\ checked.isValid => returned = repaired
          /\ ~checked.isValid
             => /\ Len(TrimmedLines(Annotation)) = 1 + Len(checked.errors)
                /\ TrimmedLines(Annotation)[1] = Trim(WarningsHeader)
                /\ \A k \in 1..Len(checked.errors) :
                      IsWarningOf(TrimmedLines(Annotation)[k + 1], checked.errors[k])

\* C20 witness: markup of a schema with tables was returned with warnings
\* appended to it
C20_Witness ==
    /\ epc = "returned"
    /\ erdSchema.tables # <<>>
    /\ ~checked.isValid
    /\ Len(returned) > Len(repaired)

\* C11: no exception escapes generateMermaidERD (nor extractEntities, nor
\* generateSchema), whatever the input: a null schema or a schema without
\* tables ends in a returned result.
C11_NoException == epc # "thrown"

----------------------------------------------------------------------------
(* Properties of the rule-based extractor's result *)

\* the result of the rule-based extractor is being built
RuleBased == path[1] = "nlp" /\ pc[1] = "extract"

\* records i and j join the same two entities, in either direction, and are
\* of the same kind
SamePairAndKind(rels, i, j) ==
    /\ {rels[i].sourceEntity, rels[i].targetEntity}
         = {rels[j].sourceEntity, rels[j].targetEntity}
    /\ rels[i].type = rels[j].type

\* C14: the result holds at most one relationship per unordered pair of
\* entity names and kind: after a record for A and B, a match for (A,B) or
\* for (B,A) adds no record.
C14_OnePerUnorderedPair ==
    RuleBased
    => \A i, j \in 1..Len(relationships[1]) :
          i < j => ~SamePairAndKind(relationships[1], i, j)

\* C15: every relationship of the rule-based extractor has a type among
\* ONE_TO_ONE, ONE_TO_MANY, MANY_TO_ONE, MANY_TO_MANY, those of the
\* weak-entity patterns included.
C15_TypeVocabulary ==
    RuleBased
    => \A i \in 1..Len(relationships[1]) : relationships[1][i].type \in CardinalityTypes

\* the entity has an attribute of that name and data type
HasAttribute(entity, n, ty) ==
    \E k \in 1..Len(entity.attributes) :
        entity.attributes[k].name = n /\ entity.attributes[k].dataType = ty

\* the entity has the primary key id INTEGER
HasIdKey(entity) ==
    \E k \in 1..Len(entity.attributes) :
        /\ entity.attributes[k].name = IdName
        /\ entity.attributes[k].dataType = INTEGER
        /\ entity.attributes[k].isPrimaryKey = "true"

\* C16: every entity of the rule-based extractor's result, the junction
\* entities it adds included, has a created_at and an updated_at TIMESTAMP
\* attribute, and the primary key id INTEGER; an entity found in the text
\* with no attributes of its own has the attribute name as well.
C16_DefaultAttributes ==
    RuleBased
    => \A i \in 1..Len(entities[1]) :
          /\ HasAttribute(entities[1][i], CreatedAt, TIMESTAMP)
          /\ HasAttribute(entities[1][i], UpdatedAt, TIMESTAMP)
          /\ HasIdKey(entities[1][i])
          /\ entities[1][i].name \in NounNames
             => HasAttribute(entities[1][i], NameName, VARCHAR255)

\* extractEntities was called on a string and the AI path gave no answer
RuleBasedCall == tpc = "done" /\ text.isString /\ ai # "answers"

\* a list of the model: a JavaScript array
IsArray(list) == DOMAIN list = 1..Len(list)

SameMention(a, b) ==
    \/ ToLowerCase(a) = ToLowerCase(b)
    \/ ToLowerCase(a) = ToLowerCase(b) \o <<"s">>
    \/ ToLowerCase(b) = ToLowerCase(a) \o <<"s">>

\* C13: in a result of the rule-based extractor, main path or fallback, the
\* entity names are pairwise distinct, and no two entities stand for
\* mentions that differ only in letter case or in a trailing 's'.
C13_DistinctEntities ==
    (RuleBasedCall /\ extracted.outcome = "returned")
    => \A i, j \in 1..Len(extracted.entities) :
          i < j => ~SameMention(extracted.entities[i].name, extracted.entities[j].name)

----------------------------------------------------------------------------
(* Further properties of validateMermaidSyntax and autoFormatMermaidSyntax *)

\* the markup has a relationship line whose operator has no white space
\* around it, as checkStructuralErrors recognises one
HasTightOperator(mermaidSyntax) ==
    \E i \in 1..Len(SplitLines(mermaidSyntax)) :
        IsBadRelationship(Trim(SplitLines(mermaidSyntax)[i]))

HasError(result, kind) ==
    \E k \in 1..Len(result.errors) : result.errors[k].kind = kind

\* C21: validateMermaidSyntax rejects every markup with a relationship line
\* whose operator is not surrounded by white space: it returns
\* isValid = false with a malformed-relationship error.
C21_RejectsTightOperator ==
    (mpc = "validated" /\ HasTightOperator(markup))
    => /\ ~validation.isValid
       /\ HasError(validation, "MalformedRelationship")

\* the entity blocks of a markup: its lines that open a block
EntityBlocks(mermaidSyntax) ==
    Cardinality({i \in 1..Len(SplitLines(mermaidSyntax)) :
                    IsEntityOpener(Trim(SplitLines(mermaidSyntax)[i]))})

ErrorCount(result, kind) ==
    Cardinality({k \in 1..Len(result.errors) : result.errors[k].kind = kind})

\* the returned text carries every line of the repaired markup
ReturnsDiagram ==
    /\ Len(returned) >= Len(repaired)
    /\ SubSeq(returned, 1, Len(repaired)) = repaired

\* C22: validateMermaidSyntax adds one block-count warning exactly when the
\* markup has more than 20 entity blocks and one relationship-count warning
\* exactly when it has more than 30 relationship lines, and
\* generateMermaidERD still returns the diagram.
C22_SizeThresholds ==
    epc = "returned"
    => /\ ErrorCount(checked, "TooManyEntities")
              = (IF EntityBlocks(repaired) > 20 THEN 1 ELSE 0)
       /\ ErrorCount(checked, "TooManyRelationships")
              = (IF Len(RelationshipLines(repaired)) > 30 THEN 1 ELSE 0)
       /\ ReturnsDiagram

\* C22 witness: generateMermaidERD returned a diagram of 21 blocks and 31
\* relationship lines with both warnings
C22_Witness ==
    /\ epc = "returned"
    /\ EntityBlocks(repaired) = 21
    /\ Len(RelationshipLines(repaired)) = 31
    /\ HasError(checked, "TooManyEntities")
    /\ HasError(checked, "TooManyRelationships")
    /\ ReturnsDiagram

\* the column a line starts at: the number of blanks before its text
StartColumn(line) == SpaceEnd(line, 1) - 1

\* line i is in the body of a block: an opener stands before it with no
\* closing brace between the two
InBlockBody(lines, i) ==
    \E j \in 1..(i - 1) :
        /\ IsEntityOpener(Trim(lines[j]))
        /\ \A k \in (j + 1)..i : Trim(lines[k]) # <<"}">>

\* the lines are indented to the fixed columns: openers and closing braces
\* to column 4, attribute lines of a block body to column 8
FixedColumns(lines) ==
    \A i \in 1..Len(lines) :
        /\ IsEntityOpener(Trim(lines[i])) => StartColumn(lines[i]) = 4
        /\ Trim(lines[i]) = <<"}">> => StartColumn(lines[i]) = 4
        /\ (InBlockBody(lines, i) /\ IsAttributeLine(Trim(lines[i])))
              => StartColumn(lines[i]) = 8

\* C24: in what autoFormatMermaidSyntax returns, every block opener line and
\* every closing-brace line starts at column 4 and every attribute line of a
\* block body starts at column 8, whatever indentation the input had.
C24_FixedIndentation ==
    mpc = "formatted" => FixedColumns(SplitLines(formatted))

----------------------------------------------------------------------------
(* Further properties of the schema generateSchema returns *)

\* C26: in every schema returned by generateSchema the table names are
\* pairwise distinct: entity tables and junction tables alike.
C26_DistinctTableNames ==
    \A r \in Runs : Done(r) =>
        \A i, j \in 1..Len(schema[r].tables) :
            i # j => schema[r].tables[i].name # schema[r].tables[j].name

\* C27: in every schema returned by generateSchema the column names are
\* pairwise distinct within each table, the key columns of a junction
\* table included.
C27_DistinctColumnNames ==
    \A r \in Runs : Done(r) =>
        \A t \in 1..Len(schema[r].tables) :
            \A i, j \in 1..Len(schema[r].tables[t].columns) :
                i # j => schema[r].tables[t].columns[i].name
                            # schema[r].tables[t].columns[j].name

----------------------------------------------------------------------------
(* Further properties of the rule-based extractor's result *)

\* the names of the entities of a list
NamesOf(ents) == {ents[i].name : i \in 1..Len(ents)}

\* every relationship joins two different entities of the list
JoinsListedEntities(ents, rels) ==
    \A i \in 1..Len(rels) :
        /\ rels[i].sourceEntity \in NamesOf(ents)
        /\ rels[i].targetEntity \in NamesOf(ents)
        /\ rels[i].sourceEntity # rels[i].targetEntity

\* C28: in every result of the rule-based extractor, main path or fallback,
\* the source and the target of each relationship are names of entities of
\* the same result, and they differ: no relationship joins an entity with
\* itself, the weak-entity relationships included.
C28_RelationshipEndpoints ==
    /\ RuleBased => JoinsListedEntities(entities[1], relationships[1])
    /\ (RuleBasedCall /\ extracted.outcome = "returned")
       => JoinsListedEntities(extracted.entities, extracted.relationships)

\* the phrases that state a cardinality, with the type each one states
ExplicitPhrases ==
    { [phrase |-> <<"o","n","e","-","t","o","-","o","n","e">>, type |-> "ONE_TO_ONE"],
      [phrase |-> <<"o","n","e","-","t","o","-","m","a","n","y">>, type |-> "ONE_TO_MANY"],
      [phrase |-> <<"m","a","n","y","-","t","o","-","o","n","e">>, type |-> "MANY_TO_ONE"],
      [phrase |-> <<"m","a","n","y","-","t","o","-","m","a","n","y">>, type |-> "MANY_TO_MANY"],
      [phrase |-> <<"1",":","1">>, type |-> "ONE_TO_ONE"],
      [phrase |-> <<"1",":","m">>, type |-> "ONE_TO_MANY"],
      [phrase |-> <<"m",":","1">>, type |-> "MANY_TO_ONE"],
      [phrase |-> <<"m",":","n">>, type |-> "MANY_TO_MANY"] }

\* the types the sentence states for the pair in so many words, as in
\* 'one-to-one between a and b'
ExplicitTypes(lowerSentence, a, b) ==
    { e.type : e \in { e \in ExplicitPhrases :
        \/ Includes(lowerSentence, e.phrase \o <<" ","b","e","t","w","e","e","n"," ">> \o a \o <<" ","a","n","d"," ">> \o b)
        \/ Includes(lowerSentence, e.phrase \o <<" ","b","e","t","w","e","e","n"," ">> \o b \o <<" ","a","n","d"," ">> \o a) } }

\* the types the lexical cues of the sentence imply
CueTypes(lowerSentence) ==
    (IF Includes(lowerSentence, <<"m","u","l","t","i","p","l","e">>) /\ Includes(lowerSentence, <<"m","a","n","y">>)
     THEN {"MANY_TO_MANY"} ELSE {})
    \cup (IF Includes(lowerSentence, <<"b","e","l","o","n","g","s"," ","t","o">>) \/ Includes(lowerSentence, <<"o","w","n","e","d"," ","b","y">>)
          THEN {"MANY_TO_ONE"} ELSE {})
    \cup (IF \/ Includes(lowerSentence, <<"h","a","s"," ","o","n","e">>)
             \/ Includes(lowerSentence, <<"h","a","s"," ","a"," ","s","i","n","g","l","e">>)
             \/ Includes(lowerSentence, <<"e","x","a","c","t","l","y"," ","o","n","e">>)
          THEN {"ONE_TO_ONE"} ELSE {})
    \cup (IF \/ Includes(lowerSentence, <<"h","a","s"," ","m","a","n","y">>)
             \/ Includes(lowerSentence, <<"h","a","v","e"," ","m","u","l","t","i","p","l","e">>)
             \/ Includes(lowerSentence, <<"c","a","n"," ","h","a","v","e"," ","s","e","v","e","r","a","l">>)
          THEN {"ONE_TO_MANY"} ELSE {})

\* the type recorded for a pair follows the precedence: the explicit
\* phrasing, else the cue, else the default
FollowsPrecedence(lowerSentence, rel) ==
    IF ExplicitTypes(lowerSentence, ToLowerCase(rel.sourceEntity),
                     ToLowerCase(rel.targetEntity)) # {}
    THEN rel.type \in ExplicitTypes(lowerSentence, ToLowerCase(rel.sourceEntity),
                                    ToLowerCase(rel.targetEntity))
    ELSE IF CueTypes(lowerSentence) # {}
    THEN rel.type \in CueTypes(lowerSentence)
    ELSE rel.type = "ONE_TO_MANY"

\* the sentence was read by the rule-based extractor
SentenceRead == RuleBased /\ tpc = "done"

\* C23: when a sentence states the cardinality of an entity pair in so many
\* words and also holds a lexical cue for another type, the recorded type
\* is the stated one; a cue decides the type only when nothing is stated,
\* and ONE_TO_MANY is recorded only when neither is present.
C23_TypePrecedence ==
    SentenceRead
    => \A i \in 1..Len(relationships[1]) :
          relationships[1][i].type # "IDENTIFYING_RELATIONSHIP"
          => FollowsPrecedence(ToLowerCase(text.chars), relationships[1][i])

\* the sentences of a text: the pieces that end with a full stop, and what
\* follows the last full stop
SentencesOf(chars) ==
    { SubSeq(chars, a, b) :
        <<a, b>> \in { <<a, b>> \in (1..Len(chars)) \X (1..Len(chars)) :
                         /\ a <= b
                         /\ a = 1 \/ chars[a - 1] = "."
                         /\ b = Len(chars) \/ chars[b] = "."
                         /\ \A k \in a..(b - 1) : chars[k] # "." } }

\* a sentence of the text mentions both names
CoOccur(chars, a, b) ==
    \E sentence \in SentencesOf(chars) :
        /\ Includes(ToLowerCase(sentence), ToLowerCase(a))
        /\ Includes(ToLowerCase(sentence), ToLowerCase(b))

\* the relationships join the entities i and j, in the order of the list
Related(rels, ents, i, j) ==
    \E k \in 1..Len(rels) :
        /\ rels[k].sourceEntity = ents[i].name
        /\ rels[k].targetEntity = ents[j].name
        /\ rels[k].type = "ONE_TO_MANY"

\* C25: the coarse fallback returns a ONE_TO_MANY relationship between two
\* of its entities exactly when a sentence of the text mentions both;
\* entities mentioned only in different sentences get no relationship.
C25_FallbackCoOccurrence ==
    (RuleBasedCall /\ extracted.outcome = "returned" /\ extracted.via = "fallback")
    => \A i, j \in 1..Len(extracted.entities) :
          i < j => (Related(extracted.relationships, extracted.entities, i, j)
                    <=> CoOccur(text.chars, extracted.entities[i].name,
                                extracted.entities[j].name))

----------------------------------------------------------------------------
(* Properties of updateSchema, createSession and saveSession *)

\* C29: every successful updateSchema raises the stored version by exactly
\* one, whatever version the body carries: after n successful updates of a
\* schema stored at version v the stored version is v + n, also when the
\* requests for one schema are handled concurrently.
C29_VersionCountsUpdates ==
    \A id \in 1..Len(schemaStore) :
        Len(ledger) = Len(schemaStore)
        => schemaStore[id].version = ledger[id].base + ledger[id].updates

\* the history of a session matches its schemas
SessionConsistent(session) ==
    /\ Len(session.history) = Len(session.schemas)
    /\ \A k \in 1..Len(session.history) :
          \E i \in 1..Len(session.schemas) :
              session.schemas[i] = session.history[k].schemaId
    /\ session.activeSchemaId =
          IF session.schemas = <<>> THEN 0 ELSE session.schemas[Len(session.schemas)]

\* what a saveSession answered 200 has stored, and what one answered 404
\* has left alone
SaveStep ==
    /\ (response'.handler = "saveSession" /\ response'.status = 200)
       => /\ Len(schemaStore') = Len(schemaStore) + 1
          /\ schemaStore'[Len(schemaStore')].version
                = schemaStore[response'.schemaId].version + 1
          /\ \A i \in 1..Len(schemaStore) : schemaStore'[i] = schemaStore[i]
          /\ Len(sessionStore'[response'.id].schemas)
                = Len(sessionStore[response'.id].schemas) + 1
          /\ \A o \in 1..Len(sessionStore) :
                o # response'.id => sessionStore'[o] = sessionStore[o]
    /\ (response'.handler = "saveSession" /\ response'.status = 404)
       => /\ schemaStore' = schemaStore
          /\ sessionStore' = sessionStore

\* C30: over any sequence of createSession and saveSession calls, the
\* history and the schemas of a session have the same length, every history
\* entry names a schema of the session, activeSchemaId is the schema added
\* last, a successful saveSession adds exactly one Schema record whose
\* version is that of the schema named in the request plus one and leaves
\* the stored records as they were, and a saveSession answered 404 changes
\* nothing.
C30_SessionHistory ==
    [][/\ \A id \in 1..Len(sessionStore') : SessionConsistent(sessionStore'[id])
       /\ SaveStep]_vars

\* C30 witness: a session created with a schema was saved twice, and a
\* save for an unknown schema was answered 404 after that
C30_Witness ==
    /\ response.handler = "saveSession"
    /\ response.status = 404
    /\ \E id \in 1..Len(sessionStore) :
          /\ Len(sessionStore[id].history) = 3
          /\ sessionStore[id].history[1].version = 1
          /\ sessionStore[id].activeSchemaId = sessionStore[id].schemas[3]

====
